---------------------------- MODULE Spec2Model ----------------------------
(***************************************************************************)
(* Model of the OHMS coordinator canister (ohms-coordinator): the dedup    *)
(* cache, the agent registry and the routing engine with its fan-out.      *)
(*                                                                         *)
(* Clock.  ic_cdk::api::time() returns nanoseconds.  The model clock `now` *)
(* counts milliseconds, so time() = now * NanosPerMs.  Every timestamp the *)
(* code stores is a value of time() plus a whole number of milliseconds,   *)
(* hence a multiple of NanosPerMs; the model stores timestamps divided by  *)
(* NanosPerMs (TTL_DURATION is 24 h in that unit).  Differences of two     *)
(* time() values that the code uses as plain numbers (the fan-out          *)
(* `elapsed`, `routing_time_ms`) are kept in nanoseconds, as in the code.  *)
(*                                                                         *)
(* Reals.  health_score and the scores are f32 in the code.  The model     *)
(* keeps health in hundredths and each score as an exact integer multiple  *)
(* of a fixed unit; f32 rounding is not modelled.                          *)
(***************************************************************************)
EXTENDS Integers, Sequences, FiniteSets, TLC

VARIABLES
    now,            \* the canister clock, in milliseconds
    ticks,          \* number of clock advances so far (bounds the run)
    agents,         \* CoordinatorState.agents: agent_id -> AgentRegistration
    routing_stats,  \* CoordinatorState.routing_stats: agent_id -> RoutingStats
    dedup_cache,    \* CoordinatorState.dedup_cache: msg_id -> DedupEntry
    metrics,        \* CoordinatorState.metrics
    calls,          \* fan-out calls suspended at their inference RPCs
    reply,          \* what the last operation returned to its caller
    lastOk,         \* history: when each entry point last returned a RouteResponse
    swarm,                      \* CoordinatorState.config.swarm
    coordination_sessions,      \* CoordinatorState.coordination_sessions
    agent_capability_profiles,  \* CoordinatorState.agent_capability_profiles
    agent_message_queues,       \* CoordinatorState.agent_message_queues
    distributed,                \* history: number of tasks distribute_task has routed
    instruction_requests,       \* CoordinatorState.instruction_requests
    agent_creation_results,     \* CoordinatorState.agent_creation_results
    user_quotas,                \* CoordinatorState.user_quotas
    creations                   \* create_agents_from_instructions calls suspended at an await

policyVars == <<swarm>>
coordVars == <<coordination_sessions, agent_capability_profiles, agent_message_queues, distributed>>
creationVars == <<instruction_requests, agent_creation_results, user_quotas, creations>>
extVars == <<policyVars, coordVars, creationVars>>

vars == <<now, ticks, agents, routing_stats, dedup_cache, metrics, calls, reply, lastOk,
          swarm, coordination_sessions, agent_capability_profiles, agent_message_queues,
          distributed, instruction_requests, agent_creation_results, user_quotas, creations>>

----------------------------------------------------------------------------
(* Bounds of the model *)

MaxTicks == 2
MaxFanoutTicks == 1
MaxCalls == 2
MaxCoreAgents == 1
MaxAgents == 4
MaxFanoutAgents == 3
MaxCompetitionAgents == 6
MaxHealthAgents == 2
MaxMessages == 2
MaxDistributed == 102
MaxCreations == 2
MaxCreationTicks == 1
MaxTierTicks == 1
MaxGateAgents == 3
MaxDispatchAgents == 4

(* Program constants *)

NanosPerMs == 1000000
TTL_DURATION == 24 * 60 * 60 * 1000
SessionTimeout == 3600 * 1000
MinHealth == 10
BroadcastK == 3
CompetitionK == 5
FanoutCap == 3
MaxMsgIdLen == 64
MAX_QUEUE_SIZE == 100

(* Input domains *)

Anonymous == "2vxsx-fae"
Principals == {"p1", "p2"}
Callers == {Anonymous, "p1"}
Authenticated == {"p1"}
Models == {"m1", "m2"}
Caps == {"code", "test"}
CapChoices == {{"code"}, {"code", "test"}}
RequestIds == {"r1", "r2"}

\* Request ids that validate_msg_id has something to say about.  A string stands
\* for the id; MsgIdLen and MsgIdChars carry what the validation reads of it:
\* its length in bytes and the kinds of characters it contains.
EmptyId == ""
LongId == "sixty-five-bytes"
SpacedId == "r 1"
AccentedId == "r-e-acute"
GuardIds == {"r1", EmptyId, LongId, SpacedId, AccentedId}
AllRequestIds == RequestIds \cup GuardIds
MsgIdLen(id) ==
    CASE id = LongId -> 65
      [] id = AccentedId -> 3
      [] OTHER -> Len(id)
MsgIdChars(id) ==
    CASE id = EmptyId -> {}
      [] id = LongId -> {"ascii_alnum"}
      [] id = SpacedId -> {"ascii_alnum", "other"}
      [] id = AccentedId -> {"ascii_alnum", "unicode_alnum"}
      [] OTHER -> {"ascii_alnum"}
HealthInputs == {-50, 10, 150}
NaN == 0 - 1000000
HealthReports == HealthInputs \cup {35, NaN}
StatusInputs == {"ready", "active", "error", "initializing"}
SmallStep == 50
Steps == {SmallStep, TTL_DURATION - SmallStep}
Modes == {"Unicast", "Broadcast", "Competition"}

NoTime == 0 - 1

----------------------------------------------------------------------------
(* Generic helpers *)

Min(a, b) == IF a <= b THEN a ELSE b
Max(a, b) == IF a >= b THEN a ELSE b

RECURSIVE Fact(_)
Fact(n) == IF n <= 1 THEN 1 ELSE n * Fact(n - 1)

Range(s) == {s[i] : i \in DOMAIN s}

\* HashMap::insert
Insert(m, k, v) == [x \in (DOMAIN m) \cup {k} |-> IF x = k THEN v ELSE m[x]]

\* every order in which a HashMap with key set S can be iterated
Orders(S) == {f \in [1..Cardinality(S) -> S] : \A i, j \in DOMAIN f : f[i] = f[j] => i = j}

\* Vec::truncate / Iterator::take
Take(s, k) == SubSeq(s, 1, Min(Len(s), k))

\* the capabilities_required vectors that requests carry
RequiredCaps == {<<>>, <<"code">>, <<"test">>, <<"code", "test">>}

----------------------------------------------------------------------------
(* infra/guards.rs *)

require_caller_authenticated(caller) == caller # Anonymous

\* Guards::validate_msg_id: is_empty() or len() > 64 bytes, then every char
\* is_alphanumeric() (any Unicode letter or digit) or '_' or '-'
validate_msg_id(msg_id) ==
    IF MsgIdLen(msg_id) = 0 \/ MsgIdLen(msg_id) > MaxMsgIdLen
    THEN "Invalid msg_id format"
    ELSE IF ~(MsgIdChars(msg_id) \subseteq
                {"ascii_alnum", "unicode_alnum", "underscore", "hyphen"})
    THEN "msg_id contains invalid characters"
    ELSE "Ok"

----------------------------------------------------------------------------
(* services/dedup.rs *)

RetainLiveInclusive(cache, t) ==
    [k \in {x \in DOMAIN cache : cache[x].ttl_expires_at >= t} |-> cache[k]]

\* state.dedup_cache.retain(|_, entry| entry.ttl_expires_at > now)
RetainLive(cache, t) ==
    [k \in {x \in DOMAIN cache : cache[x].ttl_expires_at > t} |-> cache[k]]

\* is_duplicate: the cache after the sweep, and the answer
is_duplicate_cache(cache, t) == RetainLive(cache, t)

is_duplicate_same_instant(cache, msg_id, t) ==
    msg_id \in DOMAIN cache /\ cache[msg_id].processed_at = t

is_duplicate(cache, msg_id, t) == msg_id \in DOMAIN is_duplicate_cache(cache, t)

\* record_request.  result_hash (a digest of the response) is written here and
\* returned by get_cached_result, and decides nothing; the entry is modelled
\* without it and Some(hash) as `some`.
record_request_dropped(cache, msg_id, response, t) == cache

record_request(cache, msg_id, response, t) ==
    Insert(cache, msg_id,
           [msg_id |-> msg_id,
            processed_at |-> t,
            ttl_expires_at |-> t + TTL_DURATION])

\* get_cached_result: Some(hash) of an unexpired entry, else None
get_cached_result(cache, msg_id, t) ==
    IF msg_id \in DOMAIN cache /\ cache[msg_id].ttl_expires_at > t
    THEN [some |-> TRUE]
    ELSE [some |-> FALSE]

\* cleanup_expired: the cache after the sweep (the count is the difference)
cleanup_expired_cache(cache, t) == RetainLive(cache, t)

----------------------------------------------------------------------------
(* services/registry.rs *)

\* generate_agent_id: "agent_" + base64 of SHA-256(principal, model_id, time()),
\* modelled as the tuple of what is hashed
generate_agent_id(principal, model_id, t) == <<principal, model_id, t>>

ClampNone(x) == x

\* health_score.max(0.0).min(1.0), in hundredths; f32::max(NaN, 0.0) is 0.0
Clamp(x) == IF x = NaN THEN 0 ELSE Min(Max(x, 0), 100)

\* get_healthy_agents(min_health), iterating the map in the given order
get_healthy_agents(order, min_health) ==
    SelectSeq(order, LAMBDA id : agents[id].health_score >= min_health)

\* get_health().dedup_cache_size
health_dedup_cache_size(cache) == Cardinality(DOMAIN cache)

----------------------------------------------------------------------------
(* services/routing.rs: scoring and selection *)

\* a common multiple of the lengths of the required-capability vectors
ScoreUnit == Fact(CHOOSE n \in 0..Cardinality(Caps) + 1 :
                    /\ \A r \in RequiredCaps : Len(r) <= n
                    /\ \E r \in RequiredCaps : Len(r) = n)

calculate_agent_score_penalising(agent, required) ==
    LET n == Max(Len(required), 1)
        missing == Cardinality({i \in DOMAIN required : required[i] \notin agent.capabilities})
    IN  6 * agent.health_score * ScoreUnit + 400 * missing * (ScoreUnit \div n)

\* calculate_agent_score, in units of 1 / (1000 * ScoreUnit):
\*   0.6 * health + 0.4 * (matched required capabilities / max(len, 1))
calculate_agent_score(agent, required) ==
    LET n == Max(Len(required), 1)
        matched == Cardinality({i \in DOMAIN required : required[i] \in agent.capabilities})
    IN  6 * agent.health_score * ScoreUnit + 400 * matched * (ScoreUnit \div n)

Score(id, required) == calculate_agent_score(agents[id], required)

get_capable_agents_any_health(order, required) ==
    SelectSeq(order,
              LAMBDA id : \E i \in DOMAIN required : required[i] \in agents[id].capabilities)

\* get_capable_agents: healthy agents offering any required capability
get_capable_agents(order, required) ==
    SelectSeq(get_healthy_agents(order, MinHealth),
              LAMBDA id : \E i \in DOMAIN required : required[i] \in agents[id].capabilities)

MaxByFirst(s, required) == s[1]

\* Iterator::max_by: of several maximal elements the last one is returned
RECURSIVE MaxBy(_, _)
MaxBy(s, required) ==
    IF Len(s) = 1 THEN s[1]
    ELSE LET best == MaxBy(SubSeq(s, 1, Len(s) - 1), required)
             last == s[Len(s)]
         IN  IF Score(best, required) > Score(last, required) THEN best ELSE last

SortDescUnsorted(s, required) == s

\* slice::sort_by with score_b.partial_cmp(score_a): stable, descending
RECURSIVE SortDesc(_, _)
SortDesc(s, required) ==
    IF Len(s) <= 1 THEN s
    ELSE LET sorted == SortDesc(SubSeq(s, 1, Len(s) - 1), required)
             x == s[Len(s)]
             keep == {i \in DOMAIN sorted : Score(sorted[i], required) >= Score(x, required)}
             p == Cardinality(keep)
         IN  SubSeq(sorted, 1, p) \o <<x>> \o SubSeq(sorted, p + 1, Len(sorted))

\* select_best_agent: Ok(vec![best]) or the error (an empty list here)
select_best_agent(order, required) ==
    LET candidates == get_capable_agents(order, required)
    IN  IF candidates = <<>> THEN <<>> ELSE <<MaxBy(candidates, required)>>

\* select_multiple_agents: sort descending, truncate(k)
select_multiple_agents(order, required, k) ==
    Take(SortDesc(get_capable_agents(order, required), required), k)

select_competitive_agents_untruncated(order, required, max_agents) ==
    SortDesc(get_capable_agents(order, required), required)

\* select_competitive_agents: sort descending, take(max_agents)
select_competitive_agents(order, required, max_agents) ==
    Take(SortDesc(get_capable_agents(order, required), required), max_agents)

NoAgentsError(mode) ==
    IF mode = "Competition" THEN "No agents available for competition"
    ELSE "No agents available with required capabilities"

SelectByMode(order, required, mode) ==
    CASE mode = "Unicast" -> select_best_agent(order, required)
      [] mode = "Broadcast" -> select_multiple_agents(order, required, BroadcastK)
      [] OTHER -> select_competitive_agents(order, required, CompetitionK)

----------------------------------------------------------------------------
(* State *)

InitMetrics ==
    [total_routes |-> 0, total_agents |-> 0, average_routing_time_ms |-> 0,
     last_activity |-> 0]

\* Option<HashMap<..>>: None, and Some(map)
None == [is_some |-> FALSE, map |-> <<>>]
Some(m) == [is_some |-> TRUE, map |-> m]

\* SwarmPolicy::default
DefaultSwarmPolicy == [topology |-> "Mesh", mode |-> "Parallel", top_k |-> 3, window_ms |-> 100]

\* CoordinatorState::default for the fields beyond registry, cache and metrics
InitExt ==
    /\ swarm = DefaultSwarmPolicy
    /\ coordination_sessions = None
    /\ agent_capability_profiles = None
    /\ agent_message_queues = None
    /\ distributed = 0
    /\ instruction_requests = <<>>
    /\ agent_creation_results = <<>>
    /\ user_quotas = <<>>
    /\ creations = <<>>

NoReply == [op |-> "none"]

Init ==
    /\ now = 0
    /\ ticks = 0
    /\ agents = <<>>
    /\ routing_stats = <<>>
    /\ dedup_cache = <<>>
    /\ metrics = InitMetrics
    /\ calls = [c \in 1..MaxCalls |-> [active |-> FALSE]]
    /\ reply = NoReply
    /\ lastOk = [r \in AllRequestIds |-> [route_request |-> NoTime, route_best_result |-> NoTime]]
    /\ InitExt

InFlight == {c \in DOMAIN calls : calls[c].active}

\* The clock advances between message executions.  A step of nearly 24 h is
\* taken only while no inference call is outstanding.
Tick(dt, maxTicks) ==
    /\ UNCHANGED extVars
    /\ ticks < maxTicks
    /\ dt = SmallStep \/ InFlight = {}
    /\ now' = now + dt
    /\ ticks' = ticks + 1
    /\ reply' = NoReply
    /\ UNCHANGED <<agents, routing_stats, dedup_cache, metrics, calls, lastOk>>

\* api.rs register_agent -> RegistryService::register_agent
RegisterAgent(caller, registration, bound) ==
    /\ UNCHANGED extVars
    /\ metrics.total_agents < bound
    /\ ticks = 0
    /\ UNCHANGED <<now, ticks, dedup_cache, calls, lastOk>>
    /\ IF ~require_caller_authenticated(caller)
       THEN /\ reply' = [op |-> "register_agent", caller |-> caller, result |-> "Authentication required"]
            /\ UNCHANGED <<agents, routing_stats, metrics>>
       ELSE LET agent_id == generate_agent_id(registration.agent_principal,
                                              registration.model_id, now)
                agent_reg == [agent_id |-> agent_id,
                              agent_principal |-> registration.agent_principal,
                              model_id |-> registration.model_id,
                              capabilities |-> registration.capabilities,
                              health_score |-> 100]
            IN  /\ agents' = Insert(agents, agent_id, agent_reg)
                /\ routing_stats' = Insert(routing_stats, agent_id,
                       [agent_id |-> agent_id, total_requests |-> 0,
                        success_rate |-> 100, average_response_time_ms |-> 0])
                /\ metrics' = [metrics EXCEPT !.total_agents = @ + 1,
                                              !.last_activity = now]
                /\ reply' = [op |-> "register_agent", caller |-> caller, result |-> "Ok",
                             agent_id |-> agent_id]

\* api.rs update_agent_health -> RegistryService::update_agent_health
UpdateAgentHealth(caller, agent_id, health_score) ==
    /\ UNCHANGED extVars
    /\ UNCHANGED <<now, ticks, routing_stats, dedup_cache, metrics, calls, lastOk>>
    /\ IF ~require_caller_authenticated(caller)
       THEN /\ reply' = [op |-> "update_agent_health", caller |-> caller, result |-> "Authentication required"]
            /\ UNCHANGED agents
       ELSE IF agent_id \in DOMAIN agents
       THEN /\ agents' = [agents EXCEPT ![agent_id].health_score = Clamp(health_score)]
            /\ reply' = [op |-> "update_agent_health", caller |-> caller, result |-> "Ok",
                         agent_id |-> agent_id, health_score |-> health_score]
       ELSE /\ reply' = [op |-> "update_agent_health", caller |-> caller, result |-> "Agent not found"]
            /\ UNCHANGED agents

\* AgentSpawningService::update_agent_status: the health score a status maps to
update_agent_status_health(new_status) ==
    CASE new_status \in {"Ready", "Active"} -> 100
      [] new_status = "Initializing" -> 50
      [] new_status = "Error" -> 0

\* api.rs update_agent_status: only "ready", "active" and "error" parse
ParseStatus(status) ==
    CASE status = "ready" -> "Ready"
      [] status = "active" -> "Active"
      [] status = "error" -> "Error"
      [] OTHER -> "Invalid"

\* api.rs update_agent_status -> AgentSpawningService::update_agent_status
UpdateAgentStatus(caller, agent_id, status) ==
    /\ UNCHANGED extVars
    /\ UNCHANGED <<now, ticks, routing_stats, dedup_cache, metrics, calls, lastOk>>
    /\ IF ~require_caller_authenticated(caller)
       THEN /\ reply' = [op |-> "update_agent_status", caller |-> caller, result |-> "Authentication required"]
            /\ UNCHANGED agents
       ELSE IF ~(agent_id \in DOMAIN agents /\ agents[agent_id].agent_principal = caller)
       THEN /\ reply' = [op |-> "update_agent_status", caller |-> caller,
                         result |-> "Agent not found or access denied"]
            /\ UNCHANGED agents
       ELSE IF ParseStatus(status) = "Invalid"
       THEN /\ reply' = [op |-> "update_agent_status", caller |-> caller,
                         result |-> "Invalid status. Must be 'ready', 'active', or 'error'"]
            /\ UNCHANGED agents
       ELSE /\ agents' = [agents EXCEPT ![agent_id].health_score =
                             update_agent_status_health(ParseStatus(status))]
            /\ reply' = [op |-> "update_agent_status", caller |-> caller, result |-> "Ok",
                         agent_id |-> agent_id, status |-> status]

route_failed_recorded(cache, msg_id, response, t) ==
    record_request(cache, msg_id, response, t)

\* route_request when the selection returns Err: the `?` leaves before
\* record_request and before the metrics, so the cache stays as the duplicate
\* check left it
route_failed(cache, msg_id, response, t) == cache

\* api.rs route_request -> RoutingService::route_request.  The handler has no
\* await that suspends it, so it runs in one message execution: time() is the
\* same at every read and routing_time_ms is 0.
RouteRequest(caller, request, order) ==
    /\ UNCHANGED extVars
    /\ UNCHANGED <<now, ticks, agents, routing_stats, calls>>
    /\ IF ~require_caller_authenticated(caller)
       THEN /\ reply' = [op |-> "route_request", request_id |-> request.request_id,
                         caller |-> caller,
                         result |-> "Authentication required"]
            /\ UNCHANGED <<dedup_cache, metrics, lastOk>>
       ELSE IF validate_msg_id(request.request_id) # "Ok"
       THEN /\ reply' = [op |-> "route_request", request_id |-> request.request_id,
                         caller |-> caller,
                         result |-> validate_msg_id(request.request_id)]
            /\ UNCHANGED <<dedup_cache, metrics, lastOk>>
       ELSE IF is_duplicate(dedup_cache, request.request_id, now)
       THEN /\ dedup_cache' = is_duplicate_cache(dedup_cache, now)
            /\ reply' = [op |-> "route_request", request_id |-> request.request_id,
                         caller |-> caller,
                         result |-> "Duplicate request ID"]
            /\ UNCHANGED <<metrics, lastOk>>
       ELSE LET swept == is_duplicate_cache(dedup_cache, now)
                selected == SelectByMode(order, request.capabilities_required,
                                         request.routing_mode)
                routing_time_ms == (now - now) * NanosPerMs
                response == [request_id |-> request.request_id,
                             selected_agents |-> selected,
                             routing_time_ms |-> routing_time_ms,
                             selection_criteria |-> <<"Selected by", request.routing_mode, "routing">>]
                total == metrics.total_routes + 1
            IN  IF selected = <<>>
                THEN /\ dedup_cache' = route_failed(swept, request.request_id, response, now)
                     /\ reply' = [op |-> "route_request", request_id |-> request.request_id,
                         caller |-> caller,
                                  result |-> NoAgentsError(request.routing_mode)]
                     /\ UNCHANGED <<metrics, lastOk>>
                ELSE /\ dedup_cache' = record_request(swept, request.request_id, response, now)
                     /\ metrics' = [metrics EXCEPT
                            !.total_routes = total,
                            !.average_routing_time_ms =
                                (@ * (total - 1) + routing_time_ms) \div total,
                            !.last_activity = now]
                     /\ lastOk' = [lastOk EXCEPT ![request.request_id].route_request = now]
                     /\ reply' = [op |-> "route_request", request_id |-> request.request_id,
                         caller |-> caller,
                                  result |-> "Ok", response |-> response,
                                  required |-> request.capabilities_required,
                                  mode |-> request.routing_mode]

----------------------------------------------------------------------------
(* services/routing.rs: fan-out *)

\* AInferenceResponse.  generated_text is kept as its length and the facts that
\* run_verifiers reads: blank (trim() is empty), brace (trim_start() starts
\* with '{'), colon (contains ':').
Text(len, blank, brace, colon) ==
    [len |-> len, blank |-> blank, brace |-> brace, colon |-> colon]

RespEmpty ==
    [generated_text |-> Text(0, TRUE, FALSE, FALSE), tokens |-> 0,
     cache_hits |-> 0, cache_misses |-> 0]
RespGood ==
    [generated_text |-> Text(500, FALSE, FALSE, FALSE), tokens |-> 128,
     cache_hits |-> 1, cache_misses |-> 1]
RespLong ==
    [generated_text |-> Text(2000, FALSE, TRUE, TRUE), tokens |-> 512,
     cache_hits |-> 0, cache_misses |-> 0]
RespBadJson ==
    [generated_text |-> Text(1000, FALSE, TRUE, FALSE), tokens |-> 0,
     cache_hits |-> 0, cache_misses |-> 0]

\* run_verifiers(resp).passed
run_verifiers(resp) ==
    IF resp.generated_text.blank THEN FALSE
    ELSE IF resp.generated_text.brace /\ ~resp.generated_text.colon THEN FALSE
    ELSE TRUE

\* score_response, in thousandths; elapsed is what the code passes (nanoseconds)
score_response(resp, elapsed) ==
    LET len_score == (6 * Min(resp.generated_text.len, 1000)) \div 10
        tok_score == (300 * Min(resp.tokens, 256)) \div 256
        latency_penalty == 400 * (elapsed \div 5000)
        cache_bonus == IF resp.cache_hits + resp.cache_misses > 0
                       THEN (100 * resp.cache_hits) \div (resp.cache_hits + resp.cache_misses)
                       ELSE 0
    IN  len_score + tok_score + cache_bonus - latency_penalty

\* the value of one branch of join_all: Err, or Ok((agent_id, elapsed, resp, score))
BranchResult(agent_id, outcome, elapsed) ==
    IF outcome.ok
    THEN [st |-> "ok", agent_id |-> agent_id, elapsed |-> elapsed,
          score |-> score_response(outcome.resp, elapsed)
                    + (IF run_verifiers(outcome.resp) THEN 100 ELSE 0)]
    ELSE [st |-> "err", agent_id |-> agent_id]

NoBest == [some |-> FALSE]

\* elapsed <= window_ms
InWindow(elapsed, window_ms) == elapsed <= window_ms

\* the loop over results: best_agent after the first n results
RECURSIVE BestAgent(_, _, _)
BestAgent(results, window_ms, n) ==
    IF n = 0 THEN NoBest
    ELSE LET best == BestAgent(results, window_ms, n - 1)
             res == results[n]
             this == [some |-> TRUE, agent_id |-> res.agent_id,
                      elapsed |-> res.elapsed, score |-> res.score]
         IN  IF res.st = "ok" /\ InWindow(res.elapsed, window_ms)
             THEN IF best.some
                  THEN (IF res.score > best.score THEN this ELSE best)
                  ELSE this
             ELSE best

\* the loop over results: selected_ids
SelectedIds(results) ==
    LET oks == SelectSeq(results, LAMBDA res : res.st = "ok")
    IN  [i \in DOMAIN oks |-> oks[i].agent_id]

WinnerFirstUnsorted(ids, best) == ids

\* selected_ids.sort_by_key(|id| if id == winner_id { 0 } else { 1 }): stable
WinnerFirst(ids, best) ==
    IF best.some
    THEN SelectSeq(ids, LAMBDA id : id = best.agent_id)
         \o SelectSeq(ids, LAMBDA id : id # best.agent_id)
    ELSE ids

\* the empty string that unwrap_or_default() puts in selection_criteria
EmptyString == <<>>

FanoutResponse(call, results, t) ==
    LET best == BestAgent(results, call.window_ms, Len(results))
    IN  [request_id |-> call.request_id,
         selected_agents |-> WinnerFirst(SelectedIds(results), best),
         routing_time_ms |-> (t - call.start) * NanosPerMs,
         selection_criteria |->
             [fanout_top_k |-> call.cap_k, window_ms |-> call.window_ms,
              winner |-> IF best.some THEN best.agent_id ELSE EmptyString]]

\* derive_seed: the first 8 bytes of SHA-256(msg_id) as a big-endian u64,
\* modelled as the tuple of what is hashed
derive_seed(msg_id) == <<"sha256", msg_id>>

\* AInferenceRequest::new, without the prompt and the fixed decode_params
AInferenceRequest(seed, msg_id) == [seed |-> seed, msg_id |-> msg_id]

fanout_cap_k_uncapped(k) == k

\* `let cap_k = k.min(3)`
fanout_cap_k(k) == Min(k, FanoutCap)

Idle == [active |-> FALSE]

FreeSlots(maxCalls) == {c \in 1..maxCalls : ~calls[c].active}

\* api.rs route_best_result -> RoutingService::fanout_best_result, up to the
\* await of join_all: selection and the dispatch of one infer call per agent
RouteBestResult(caller, request, k, window_ms, order, maxCalls) ==
    /\ UNCHANGED extVars
    /\ UNCHANGED <<now, ticks, agents, routing_stats, dedup_cache, metrics, lastOk>>
    /\ IF ~require_caller_authenticated(caller)
       THEN /\ reply' = [op |-> "route_best_result", request_id |-> request.request_id,
                         caller |-> caller,
                         result |-> "Authentication required"]
            /\ UNCHANGED calls
       ELSE IF validate_msg_id(request.request_id) # "Ok"
       THEN /\ reply' = [op |-> "route_best_result", request_id |-> request.request_id,
                         caller |-> caller,
                         result |-> validate_msg_id(request.request_id)]
            /\ UNCHANGED calls
       ELSE LET cap_k == fanout_cap_k(k)
                candidates == get_capable_agents(order, request.capabilities_required)
                selected == select_multiple_agents(order, request.capabilities_required, cap_k)
            IN  IF candidates = <<>>
                THEN /\ reply' = [op |-> "route_best_result", request_id |-> request.request_id,
                         caller |-> caller,
                                  result |-> "No agents available with required capabilities"]
                     /\ UNCHANGED calls
                ELSE IF selected = <<>>
                THEN /\ reply' = [op |-> "route_best_result", request_id |-> request.request_id,
                         caller |-> caller,
                                  result |-> "No agents available"]
                     /\ UNCHANGED calls
                ELSE /\ FreeSlots(maxCalls) # {}
                     /\ LET c == CHOOSE x \in FreeSlots(maxCalls) :
                                     \A y \in FreeSlots(maxCalls) : x <= y
                        IN  calls' = [calls EXCEPT ![c] =
                                [active |-> TRUE,
                                 request_id |-> request.request_id,
                                 cap_k |-> cap_k,
                                 window_ms |-> window_ms,
                                 start |-> now,
                                 results |-> [i \in DOMAIN selected |->
                                     [st |-> "pending", agent_id |-> selected[i]]]]]
                     /\ reply' = [op |-> "route_best_result", request_id |-> request.request_id,
                         caller |-> caller,
                                  result |-> "pending", dispatched |-> selected,
                                  required |-> request.capabilities_required,
                                  k |-> k,
                                  requests |-> [i \in DOMAIN selected |->
                                      AInferenceRequest(derive_seed(request.request_id),
                                                        request.request_id)]]

\* The reply (or reject) of one infer call.  The reply that completes join_all
\* resumes fanout_best_result in the same message execution: arbitration,
\* record_request and the return.
InferReply(c, i, outcome) ==
    /\ UNCHANGED extVars
    /\ calls[c].active
    /\ i \in DOMAIN calls[c].results
    /\ calls[c].results[i].st = "pending"
    /\ UNCHANGED <<now, ticks, agents, routing_stats, metrics>>
    /\ LET call == calls[c]
           elapsed == (now - call.start) * NanosPerMs
           results == [call.results EXCEPT
                          ![i] = BranchResult(call.results[i].agent_id, outcome, elapsed)]
           done == \A j \in DOMAIN results : results[j].st # "pending"
           response == FanoutResponse(call, results, now)
       IN  IF ~done
           THEN /\ calls' = [calls EXCEPT ![c].results = results]
                /\ reply' = [op |-> "infer", request_id |-> call.request_id]
                /\ UNCHANGED <<dedup_cache, lastOk>>
           ELSE /\ calls' = [calls EXCEPT ![c] = Idle]
                /\ dedup_cache' = record_request(dedup_cache, call.request_id, response, now)
                /\ lastOk' = [lastOk EXCEPT ![call.request_id].route_best_result = now]
                /\ reply' = [op |-> "route_best_result", request_id |-> call.request_id,
                             result |-> "Ok", response |-> response,
                             results |-> results,
                             best_agent |-> BestAgent(results, call.window_ms, Len(results))]

Outcomes(resps) == {[ok |-> FALSE]} \cup {[ok |-> TRUE, resp |-> r] : r \in resps}

----------------------------------------------------------------------------
(* Read paths and the sweep *)

\* DedupService::cleanup_expired
CleanupExpired ==
    /\ UNCHANGED extVars
    /\ dedup_cache' = cleanup_expired_cache(dedup_cache, now)
    /\ reply' = [op |-> "cleanup_expired",
                 removed |-> Cardinality(DOMAIN dedup_cache) - Cardinality(DOMAIN dedup_cache')]
    /\ UNCHANGED <<now, ticks, agents, routing_stats, metrics, calls, lastOk>>

\* DedupService::get_cached_result
GetCachedResult(msg_id) ==
    /\ UNCHANGED extVars
    /\ reply' = [op |-> "get_cached_result", request_id |-> msg_id,
                 result |-> get_cached_result(dedup_cache, msg_id, now)]
    /\ UNCHANGED <<now, ticks, agents, routing_stats, dedup_cache, metrics, calls, lastOk>>

\* api.rs health -> RegistryService::get_health (no authentication guard)
Health ==
    /\ UNCHANGED extVars
    /\ reply' = [op |-> "health",
                 total_agents |-> Cardinality(DOMAIN agents),
                 active_agents |-> Cardinality({a \in DOMAIN agents : agents[a].health_score > 50}),
                 total_routes_processed |-> metrics.total_routes,
                 average_routing_time_ms |-> metrics.average_routing_time_ms,
                 dedup_cache_size |-> health_dedup_cache_size(dedup_cache)]
    /\ UNCHANGED <<now, ticks, agents, routing_stats, dedup_cache, metrics, calls, lastOk>>

----------------------------------------------------------------------------
(* api.rs: swarm policy and routing statistics *)

\* RoutingService::get_stats: the stats of one agent, or of all in map order
get_stats(order, agent_id) ==
    IF agent_id.is_some
    THEN IF agent_id.id \in DOMAIN routing_stats THEN <<routing_stats[agent_id.id]>> ELSE <<>>
    ELSE [i \in DOMAIN order |-> routing_stats[order[i]]]

\* api.rs get_routing_stats
GetRoutingStats(caller, agent_id, order) ==
    /\ UNCHANGED extVars
    /\ UNCHANGED <<now, ticks, agents, routing_stats, dedup_cache, metrics, calls, lastOk>>
    /\ IF ~require_caller_authenticated(caller)
       THEN reply' = [op |-> "get_routing_stats", caller |-> caller,
                      result |-> "Authentication required"]
       ELSE reply' = [op |-> "get_routing_stats", caller |-> caller, result |-> "Ok",
                      stats |-> get_stats(order, agent_id)]

\* api.rs set_swarm_policy
SetSwarmPolicy(caller, policy) ==
    /\ UNCHANGED <<coordVars, creationVars>>
    /\ UNCHANGED <<now, ticks, agents, routing_stats, dedup_cache, metrics, calls, lastOk>>
    /\ IF ~require_caller_authenticated(caller)
       THEN /\ reply' = [op |-> "set_swarm_policy", caller |-> caller,
                         result |-> "Authentication required"]
            /\ UNCHANGED swarm
       ELSE /\ swarm' = policy
            /\ reply' = [op |-> "set_swarm_policy", caller |-> caller, result |-> "Ok"]

\* api.rs get_swarm_policy: a query without a guard
GetSwarmPolicy(caller) ==
    /\ UNCHANGED extVars
    /\ UNCHANGED <<now, ticks, agents, routing_stats, dedup_cache, metrics, calls, lastOk>>
    /\ reply' = [op |-> "get_swarm_policy", caller |-> caller, result |-> "Ok",
                 policy |-> swarm]

----------------------------------------------------------------------------
(* services/autonomous_coord.rs: coordination sessions *)

\* format!("coord_{}", time())
session_id_at(t) == <<"coord", t>>

\* create_coordination_session: a second session created at the same time()
\* has the same id and replaces the first in the map
create_coordination_session(sessions, objective, participant_agents, coordinator_agent, t) ==
    Some(Insert(sessions.map, session_id_at(t),
                [session_id |-> session_id_at(t),
                 participants |-> participant_agents,
                 coordinator_agent |-> coordinator_agent,
                 objective |-> objective,
                 status |-> "Active",
                 created_at |-> t,
                 last_activity |-> t,
                 messages |-> <<>>]))

CreateCoordinationSession(objective, participant_agents, coordinator_agent) ==
    /\ UNCHANGED <<policyVars, creationVars>>
    /\ UNCHANGED <<now, ticks, agents, routing_stats, dedup_cache, metrics, calls, lastOk>>
    /\ UNCHANGED <<agent_capability_profiles, agent_message_queues, distributed>>
    /\ coordination_sessions' =
          create_coordination_session(coordination_sessions, objective,
                                      participant_agents, coordinator_agent, now)
    /\ reply' = [op |-> "create_coordination_session", result |-> "Ok",
                 session_id |-> session_id_at(now)]

\* initiate_collaboration: the first participant coordinates
InitiateCollaboration(problem_description, participating_agents) ==
    /\ UNCHANGED <<policyVars, creationVars>>
    /\ UNCHANGED <<now, ticks, agents, routing_stats, dedup_cache, metrics, calls, lastOk>>
    /\ UNCHANGED <<agent_capability_profiles, agent_message_queues, distributed>>
    /\ IF participating_agents = <<>>
       THEN /\ reply' = [op |-> "initiate_collaboration",
                         result |-> "At least one agent required for collaboration"]
            /\ UNCHANGED coordination_sessions
       ELSE /\ coordination_sessions' =
                  create_coordination_session(coordination_sessions, problem_description,
                      participating_agents, participating_agents[1], now)
            /\ reply' = [op |-> "initiate_collaboration", result |-> "Ok",
                         session_id |-> session_id_at(now)]

send_coordination_message_no_timeout(session, from_agent, to_agent, message, t) ==
    [session EXCEPT
        !.messages = Append(@, [from_agent |-> from_agent, to_agent |-> to_agent,
                                message_type |-> message, timestamp |-> t,
                                sequence_number |-> Len(session.messages)]),
        !.last_activity = t]

\* send_coordination_message on a session that exists: push the message with
\* sequence_number = messages.len() as u32 (usize is 32 bits wide on the
\* canister's wasm32 target, so the cast keeps the value), then the timeout check
send_coordination_message(session, from_agent, to_agent, message, t) ==
    [session EXCEPT
        !.messages = Append(@, [from_agent |-> from_agent, to_agent |-> to_agent,
                                message_type |-> message, timestamp |-> t,
                                sequence_number |-> Len(session.messages)]),
        !.last_activity = t,
        !.status = IF t - session.created_at > SessionTimeout THEN "Timeout" ELSE @]

SendCoordinationMessage(session_id, from_agent, to_agent, message) ==
    /\ UNCHANGED <<policyVars, creationVars>>
    /\ UNCHANGED <<now, ticks, agents, routing_stats, dedup_cache, metrics, calls, lastOk>>
    /\ UNCHANGED <<agent_capability_profiles, agent_message_queues, distributed>>
    /\ IF ~coordination_sessions.is_some
       THEN /\ reply' = [op |-> "send_coordination_message",
                         result |-> "No coordination sessions available"]
            /\ UNCHANGED coordination_sessions
       ELSE IF session_id \notin DOMAIN coordination_sessions.map
       THEN /\ reply' = [op |-> "send_coordination_message",
                         result |-> "Coordination session not found"]
            /\ UNCHANGED coordination_sessions
       ELSE /\ Len(coordination_sessions.map[session_id].messages) < MaxMessages
            /\ coordination_sessions' =
                  [coordination_sessions EXCEPT !.map[session_id] =
                      send_coordination_message(@, from_agent, to_agent, message, now)]
            /\ reply' = [op |-> "send_coordination_message", result |-> "Ok",
                         session_id |-> session_id]

\* cleanup_expired_sessions: sessions idle for more than an hour are removed
cleanup_expired_sessions(sessions, t) ==
    IF sessions.is_some
    THEN Some([id \in {x \in DOMAIN sessions.map :
                          ~(t - sessions.map[x].last_activity > SessionTimeout)}
                 |-> sessions.map[id]])
    ELSE sessions

CleanupExpiredSessions ==
    /\ UNCHANGED <<policyVars, creationVars>>
    /\ UNCHANGED <<now, ticks, agents, routing_stats, dedup_cache, metrics, calls, lastOk>>
    /\ UNCHANGED <<agent_capability_profiles, agent_message_queues, distributed>>
    /\ coordination_sessions' = cleanup_expired_sessions(coordination_sessions, now)
    /\ reply' = [op |-> "cleanup_expired_sessions", result |-> "Ok",
                 cleaned_count |-> Cardinality(DOMAIN coordination_sessions.map)
                                   - Cardinality(DOMAIN coordination_sessions'.map)]

\* get_coordination_session
GetCoordinationSession(session_id) ==
    /\ UNCHANGED extVars
    /\ UNCHANGED <<now, ticks, agents, routing_stats, dedup_cache, metrics, calls, lastOk>>
    /\ reply' = IF coordination_sessions.is_some
                   /\ session_id \in DOMAIN coordination_sessions.map
                THEN [op |-> "get_coordination_session", result |-> "Some",
                      session |-> coordination_sessions.map[session_id]]
                ELSE [op |-> "get_coordination_session", result |-> "None"]

----------------------------------------------------------------------------
(* services/autonomous_coord.rs: capability profiles and message queues *)

\* update_agent_profile
UpdateAgentProfile(agent_id, capabilities, performance_metrics, availability_status) ==
    /\ UNCHANGED <<policyVars, creationVars>>
    /\ UNCHANGED <<now, ticks, agents, routing_stats, dedup_cache, metrics, calls, lastOk>>
    /\ UNCHANGED <<coordination_sessions, agent_message_queues, distributed>>
    /\ agent_capability_profiles' =
          Some(Insert(agent_capability_profiles.map, agent_id,
                      [agent_id |-> agent_id,
                       capabilities |-> capabilities,
                       performance_metrics |-> performance_metrics,
                       availability_status |-> availability_status]))
    /\ reply' = [op |-> "update_agent_profile", result |-> "Ok"]

\* find_suitable_agents: Available profiles that have every required
\* capability, in the iteration order of the profile map
find_suitable_agents(order, required_capabilities) ==
    IF agent_capability_profiles.is_some
    THEN SelectSeq(order, LAMBDA id :
            /\ \A i \in DOMAIN required_capabilities :
                  required_capabilities[i] \in agent_capability_profiles.map[id].capabilities
            /\ agent_capability_profiles.map[id].availability_status = "Available")
    ELSE <<>>

\* the score select_optimal_agent gives a profile, in thousandths; success
\* rate, load and reliability are in hundredths
optimal_agent_score(profile, priority) ==
    LET pm == profile.performance_metrics
        availability_score == IF pm.current_load < 30 THEN 100
                              ELSE IF pm.current_load < 70 THEN 70
                              ELSE IF pm.current_load < 90 THEN 40
                              ELSE 10
        priority_bonus == CASE priority = "Critical" -> 100
                            [] priority = "High" -> 70
                            [] priority = "Normal" -> 50
                            [] priority = "Low" -> 20
    IN  4 * pm.success_rate + 3 * availability_score + 2 * pm.reliability_score
        + priority_bonus

\* select_optimal_agent: the loop keeps the first agent whose score is
\* strictly above the best so far, starting from agents[0] and 0.0
RECURSIVE select_optimal_agent_from(_, _, _, _, _)
select_optimal_agent_from(suitable, priority, i, best_agent, best_score) ==
    IF i > Len(suitable) THEN best_agent
    ELSE LET score == optimal_agent_score(agent_capability_profiles.map[suitable[i]], priority)
         IN  IF score > best_score
             THEN select_optimal_agent_from(suitable, priority, i + 1, suitable[i], score)
             ELSE select_optimal_agent_from(suitable, priority, i + 1, best_agent, best_score)

select_optimal_agent(suitable, priority) ==
    select_optimal_agent_from(suitable, priority, 1, suitable[1], 0)

route_message_to_agent_unbounded(queues, agent_id, message) ==
    Some(Insert(queues.map, agent_id,
                Append(IF agent_id \in DOMAIN queues.map THEN queues.map[agent_id] ELSE <<>>,
                       message)))

\* route_message_to_agent: a queue that holds MAX_QUEUE_SIZE messages loses its
\* oldest one (queue.remove(0)) before the push
route_message_to_agent(queues, agent_id, message) ==
    LET queue == IF agent_id \in DOMAIN queues.map THEN queues.map[agent_id] ELSE <<>>
        kept == IF Len(queue) >= MAX_QUEUE_SIZE THEN Tail(queue) ELSE queue
    IN  Some(Insert(queues.map, agent_id, Append(kept, message)))

\* distribute_task
DistributeTask(task_description, required_capabilities, priority, order) ==
    /\ distributed < MaxDistributed
    /\ UNCHANGED <<policyVars, creationVars>>
    /\ UNCHANGED <<now, ticks, agents, routing_stats, dedup_cache, metrics, calls, lastOk>>
    /\ UNCHANGED <<coordination_sessions, agent_capability_profiles>>
    /\ LET task_id == <<"task", now>>
           suitable_agents == find_suitable_agents(order, required_capabilities)
       IN  IF suitable_agents = <<>>
           THEN /\ reply' = [op |-> "distribute_task",
                             result |-> "No suitable agents available for task"]
                /\ UNCHANGED <<agent_message_queues, distributed>>
           ELSE LET selected_agent == select_optimal_agent(suitable_agents, priority)
                    task_message == [kind |-> "TaskRequest", task_id |-> task_id,
                                     description |-> task_description,
                                     required_capabilities |-> required_capabilities,
                                     priority |-> priority]
                IN  /\ agent_message_queues' =
                          route_message_to_agent(agent_message_queues, selected_agent,
                                                 task_message)
                    /\ distributed' = distributed + 1
                    /\ reply' = [op |-> "distribute_task", result |-> "Ok",
                                 task_id |-> task_id, agent_id |-> selected_agent,
                                 message |-> task_message]

\* get_agent_messages: returns the queue and clears it
GetAgentMessages(agent_id) ==
    /\ UNCHANGED <<policyVars, creationVars>>
    /\ UNCHANGED <<now, ticks, agents, routing_stats, dedup_cache, metrics, calls, lastOk>>
    /\ UNCHANGED <<coordination_sessions, agent_capability_profiles, distributed>>
    /\ IF agent_message_queues.is_some /\ agent_id \in DOMAIN agent_message_queues.map
       THEN /\ agent_message_queues' = [agent_message_queues EXCEPT !.map[agent_id] = <<>>]
            /\ reply' = [op |-> "get_agent_messages", agent_id |-> agent_id,
                         messages |-> agent_message_queues.map[agent_id]]
       ELSE /\ UNCHANGED agent_message_queues
            /\ reply' = [op |-> "get_agent_messages", agent_id |-> agent_id,
                         messages |-> <<>>]

----------------------------------------------------------------------------
(* services/instruction_analyzer.rs *)

\* An instruction text stands in the model for the set of keywords that occur
\* in its lower-cased form; str::contains(keyword) is membership in that set.

\* get_capability_patterns
CapabilityPatterns ==
    <<[keywords |-> {"code", "programming", "develop", "software", "application"},
       capabilities |-> <<"coding", "software_development", "programming">>,
       specialization |-> "Software Developer"],
      [keywords |-> {"test", "testing", "qa", "quality", "verify"},
       capabilities |-> <<"testing", "quality_assurance", "verification">>,
       specialization |-> "Test Engineer"],
      [keywords |-> {"review", "code review", "peer review"},
       capabilities |-> <<"code_review", "quality_assurance", "best_practices">>,
       specialization |-> "Code Reviewer"],
      [keywords |-> {"write", "content", "article", "blog", "documentation"},
       capabilities |-> <<"content_creation", "writing", "documentation">>,
       specialization |-> "Content Creator"],
      [keywords |-> {"marketing", "social media", "campaign", "promote"},
       capabilities |-> <<"marketing", "social_media", "campaign_management">>,
       specialization |-> "Marketing Specialist"],
      [keywords |-> {"analyze", "data", "analytics", "insights", "report"},
       capabilities |-> <<"data_analysis", "analytics", "reporting">>,
       specialization |-> "Data Analyst"],
      [keywords |-> {"research", "investigate", "study", "explore"},
       capabilities |-> <<"research", "investigation", "analysis">>,
       specialization |-> "Research Analyst"]>>

\* matches_pattern
matches_pattern(instructions, keywords) == instructions \cap keywords # {}

\* determine_agent_count
determine_agent_count(instructions, capabilities) ==
    LET base == Max(Len(capabilities), 1)
        team == IF instructions \cap {"team", "multiple"} # {} THEN Max(base, 3) ELSE base
        complex == IF instructions \cap {"complex", "comprehensive"} # {}
                   THEN Max(team, 4) ELSE team
    IN  Min(complex, 10)

\* parse_instructions: the capabilities of every matching pattern, appended in
\* pattern order
RECURSIVE extend_capabilities(_, _)
extend_capabilities(patterns, i) ==
    IF i > Len(patterns) THEN <<>>
    ELSE patterns[i].capabilities \o extend_capabilities(patterns, i + 1)

parse_instructions(instructions) ==
    LET matching == SelectSeq(CapabilityPatterns,
                              LAMBDA p : matches_pattern(instructions, p.keywords))
        required_capabilities == extend_capabilities(matching, 1)
    IN  [agent_count |-> determine_agent_count(instructions, required_capabilities),
         required_capabilities |-> required_capabilities,
         specializations |-> [i \in DOMAIN matching |-> matching[i].specialization]]

\* get_capabilities_for_specialization
get_capabilities_for_specialization(specialization) ==
    CASE specialization = "Software Developer" ->
            {"coding", "software_development", "programming", "debugging"}
      [] specialization = "Test Engineer" ->
            {"testing", "quality_assurance", "verification", "automation"}
      [] specialization = "Code Reviewer" ->
            {"code_review", "quality_assurance", "best_practices", "security"}
      [] specialization = "Content Creator" ->
            {"content_creation", "writing", "documentation", "editing"}
      [] specialization = "Marketing Specialist" ->
            {"marketing", "social_media", "campaign_management", "analytics"}
      [] specialization = "Data Analyst" ->
            {"data_analysis", "analytics", "reporting", "visualization"}
      [] specialization = "Research Analyst" ->
            {"research", "investigation", "analysis", "synthesis"}
      [] OTHER -> {"general_assistance"}

\* get_models_for_specialization
get_models_for_specialization(specialization) ==
    CASE specialization \in {"Software Developer", "Test Engineer", "Code Reviewer"} ->
            <<"code-llama", "starcoder", "wizardcoder">>
      [] specialization \in {"Content Creator", "Marketing Specialist",
                             "Data Analyst", "Research Analyst"} ->
            <<"llama", "mistral", "gemma">>
      [] OTHER -> <<"llama">>

\* format!("Generalist Agent {}", specs.len() + 1), for the counts that
\* determine_agent_count allows
GeneralistNames ==
    <<"Generalist Agent 1", "Generalist Agent 2", "Generalist Agent 3",
      "Generalist Agent 4", "Generalist Agent 5", "Generalist Agent 6",
      "Generalist Agent 7", "Generalist Agent 8", "Generalist Agent 9",
      "Generalist Agent 10">>

generate_agent_specs_unpadded(parsed) ==
    [i \in 1..Min(parsed.agent_count, Len(parsed.specializations)) |->
        [agent_type |-> parsed.specializations[i],
         required_capabilities |->
             get_capabilities_for_specialization(parsed.specializations[i]),
         model_requirements |->
             get_models_for_specialization(parsed.specializations[i]),
         specialization |-> parsed.specializations[i]]]

\* generate_agent_specs: one spec for each of the first agent_count
\* specializations, then generalists up to agent_count
generate_agent_specs(parsed) ==
    [i \in 1..parsed.agent_count |->
        IF i <= Len(parsed.specializations)
        THEN [agent_type |-> parsed.specializations[i],
              required_capabilities |->
                  get_capabilities_for_specialization(parsed.specializations[i]),
              model_requirements |->
                  get_models_for_specialization(parsed.specializations[i]),
              specialization |-> parsed.specializations[i]]
        ELSE [agent_type |-> GeneralistNames[i],
              required_capabilities |-> {"general_assistance"},
              model_requirements |-> <<"llama">>,
              specialization |-> "General Assistant"]]

\* the Pro quota that check_user_quotas makes up for a principal without one
DefaultUserQuota(user_principal, t) ==
    [principal_id |-> user_principal,
     subscription_tier |-> "Pro",
     limits |-> [max_agents |-> 25, monthly_agent_creations |-> 25,
                 token_limit |-> 4096, inference_rate |-> "Priority"],
     current_usage |-> [agents_created_this_month |-> 0, tokens_used_this_month |-> 0,
                        inferences_this_month |-> 0, last_reset_date |-> t],
     last_updated |-> t]

\* check_user_quotas: computes quota_available and stores the quota it read
\* (or made up) back; quota_available is returned inside the analysis and
\* rejects nothing
check_user_quotas(quotas, user_principal, requested_agents, t) ==
    LET user_quota == IF user_principal \in DOMAIN quotas THEN quotas[user_principal]
                      ELSE DefaultUserQuota(user_principal, t)
        current_agents == user_quota.current_usage.agents_created_this_month
        remaining_agents == Max(user_quota.limits.max_agents - current_agents, 0)
    IN  [quota_available |-> /\ remaining_agents >= requested_agents
                             /\ current_agents < user_quota.limits.monthly_agent_creations,
         user_quotas |-> Insert(quotas, user_principal, user_quota)]

\* analyze_instructions
analyze_instructions(quotas, instructions, user_principal, t) ==
    LET parsed == parse_instructions(instructions)
        quota_check == check_user_quotas(quotas, user_principal, parsed.agent_count, t)
    IN  [suggested_agents |-> generate_agent_specs(parsed),
         quota_check |-> quota_check.quota_available,
         user_quotas |-> quota_check.user_quotas]

----------------------------------------------------------------------------
(* services/agent_spawning.rs *)

\* format!("agent_{}_{}_{}", user_principal, spec.agent_type, time())
spawned_agent_id(user_principal, agent_type, t) == <<"agent", user_principal, agent_type, t>>

\* format!("network_{}", time())
network_id_at(t) == <<"network", t>>

create_agent_instance_ready(spec, user_principal, t) ==
    [agent_id |-> spawned_agent_id(user_principal, spec.agent_type, t),
     specialization |-> spec.specialization,
     model_id |-> IF spec.model_requirements = <<>> THEN "llama"
                  ELSE spec.model_requirements[1],
     capabilities |-> spec.required_capabilities,
     status |-> "Ready"]

\* create_agent_instance: the SpawnedAgent of one spec
create_agent_instance(spec, user_principal, t) ==
    [agent_id |-> spawned_agent_id(user_principal, spec.agent_type, t),
     specialization |-> spec.specialization,
     model_id |-> IF spec.model_requirements = <<>> THEN "llama"
                  ELSE spec.model_requirements[1],
     capabilities |-> spec.required_capabilities,
     status |-> "Initializing"]

\* spawn_agent_instances: every spec in turn yields an agent (the creation call
\* of this source always succeeds)
spawn_agent_instances(specs, user_principal, t) ==
    [i \in DOMAIN specs |-> create_agent_instance(specs[i], user_principal, t)]

\* call_agent_canister_create, for each spawned agent in turn: the agent is
\* inserted into the registry with health 1.0
RECURSIVE register_spawned_agents(_, _, _, _)
register_spawned_agents(registry, spawned, user_principal, i) ==
    IF i > Len(spawned) THEN registry
    ELSE register_spawned_agents(
             Insert(registry, spawned[i].agent_id,
                    [agent_id |-> spawned[i].agent_id,
                     agent_principal |-> user_principal,
                     model_id |-> spawned[i].model_id,
                     capabilities |-> spawned[i].capabilities,
                     health_score |-> 100]),
             spawned, user_principal, i + 1)

\* setup_coordination_network: the session of the spawned agents
setup_coordination_network(sessions, spawned, t) ==
    Some(Insert(sessions.map, network_id_at(t),
                [session_id |-> network_id_at(t),
                 participants |-> [i \in DOMAIN spawned |-> spawned[i].agent_id],
                 coordinator_agent |-> spawned[1].agent_id,
                 objective |-> "Multi-agent coordination for instruction-based task execution",
                 status |-> "Active",
                 created_at |-> t,
                 last_activity |-> t,
                 messages |-> <<>>]))

\* setup_agent_capability_profiles
RECURSIVE setup_agent_capability_profiles(_, _, _)
setup_agent_capability_profiles(profiles, spawned, i) ==
    IF i > Len(spawned) THEN profiles
    ELSE setup_agent_capability_profiles(
             Insert(profiles, spawned[i].agent_id,
                    [agent_id |-> spawned[i].agent_id,
                     capabilities |-> spawned[i].capabilities,
                     performance_metrics |-> [success_rate |-> 100, current_load |-> 0,
                                              reliability_score |-> 100],
                     availability_status |-> "Available"]),
             spawned, i + 1)

determine_spawning_status_no_partial(spawned) ==
    LET ready_count == Cardinality({i \in DOMAIN spawned : spawned[i].status = "Ready"})
        error_count == Cardinality({i \in DOMAIN spawned : spawned[i].status = "Error"})
    IN  IF spawned = <<>> THEN "Failed"
        ELSE IF error_count = Len(spawned) THEN "Failed"
        ELSE IF ready_count > 0 THEN "Completed"
        ELSE "InProgress"

\* determine_spawning_status
determine_spawning_status(spawned) ==
    LET ready_count == Cardinality({i \in DOMAIN spawned : spawned[i].status = "Ready"})
        error_count == Cardinality({i \in DOMAIN spawned : spawned[i].status = "Error"})
    IN  IF spawned = <<>> THEN "Failed"
        ELSE IF error_count = Len(spawned) THEN "Failed"
        ELSE IF ready_count = Len(spawned) THEN "Completed"
        ELSE IF ready_count > 0 THEN "PartialSuccess"
        ELSE "InProgress"

\* store_spawning_result: the AgentCreationResult of a SpawningResult
store_spawning_result(results, request_id, spawned, status) ==
    Insert(results, request_id,
           [request_id |-> request_id,
            created_agents |-> [i \in DOMAIN spawned |-> spawned[i].agent_id],
            creation_time_ms |-> 0,
            status |-> IF status = "PartialSuccess" THEN "Completed" ELSE status])

\* spawn_agents_from_instructions, which runs without suspending at time t:
\* the outcome and the state it leaves.  An empty list of spawned agents is
\* the only error, and it returns before sessions or results are written.
spawn_agents_from_instructions(quotas, request_id, user_principal, instructions, t) ==
    LET analysis == analyze_instructions(quotas, instructions, user_principal, t)
        spawned == spawn_agent_instances(analysis.suggested_agents, user_principal, t)
        registry == register_spawned_agents(agents, spawned, user_principal, 1)
    IN  IF spawned = <<>>
        THEN [ok |-> FALSE, error |-> "Failed to spawn any agents",
              spawned_agents |-> spawned,
              user_quotas |-> analysis.user_quotas,
              agents |-> registry,
              coordination_sessions |-> coordination_sessions,
              agent_capability_profiles |-> agent_capability_profiles,
              agent_creation_results |-> agent_creation_results]
        ELSE [ok |-> TRUE, error |-> "",
              spawned_agents |-> spawned,
              user_quotas |-> analysis.user_quotas,
              agents |-> registry,
              coordination_sessions |->
                  IF Len(spawned) > 1
                  THEN setup_coordination_network(coordination_sessions, spawned, t)
                  ELSE coordination_sessions,
              agent_capability_profiles |->
                  IF Len(spawned) > 1
                  THEN Some(setup_agent_capability_profiles(
                                agent_capability_profiles.map, spawned, 1))
                  ELSE agent_capability_profiles,
              agent_creation_results |->
                  store_spawning_result(agent_creation_results, request_id, spawned,
                                        determine_spawning_status(spawned))]

----------------------------------------------------------------------------
(* services/quota_manager.rs *)

\* Option<String> and Option<u64>
NoReason == [is_some |-> FALSE, value |-> ""]
Reason(r) == [is_some |-> TRUE, value |-> r]
NoAmount == [is_some |-> FALSE, value |-> 0]
Amount(n) == [is_some |-> TRUE, value |-> n]

\* 30 * 24 * 60 * 60 seconds
MonthSeconds == 30 * 24 * 60 * 60

\* reset_monthly_usage_if_needed: now - last_reset > 30 days, compared in
\* whole seconds and the remaining milliseconds
reset_monthly_usage_if_needed(user_quota, t) ==
    LET elapsed == t - user_quota.current_usage.last_reset_date
    IN  IF \/ elapsed \div 1000 > MonthSeconds
           \/ (elapsed \div 1000 = MonthSeconds /\ elapsed % 1000 > 0)
        THEN [user_quota EXCEPT !.current_usage =
                 [agents_created_this_month |-> 0, tokens_used_this_month |-> 0,
                  inferences_this_month |-> 0, last_reset_date |-> t]]
        ELSE user_quota

\* QuotaManager::validate_agent_creation_quota
validate_agent_creation_quota(user_quota) ==
    IF user_quota.current_usage.agents_created_this_month
           >= user_quota.limits.monthly_agent_creations
    THEN [allowed |-> FALSE, reason |-> Reason("Monthly agent creation limit reached"),
          agents_remaining |-> 0]
    ELSE [allowed |-> TRUE, reason |-> NoReason,
          agents_remaining |-> Max(user_quota.limits.monthly_agent_creations
                                   - user_quota.current_usage.agents_created_this_month, 0)]

\* QuotaManager::validate_token_usage_quota
validate_token_usage_quota(user_quota, tokens_requested) ==
    LET remaining_tokens == Max(user_quota.limits.token_limit
                                - user_quota.current_usage.tokens_used_this_month, 0)
        agents_remaining == Max(user_quota.limits.monthly_agent_creations
                                - user_quota.current_usage.agents_created_this_month, 0)
    IN  IF tokens_requested > remaining_tokens
        THEN [allowed |-> FALSE, reason |-> Reason("Insufficient token quota"),
              agents_remaining |-> agents_remaining]
        ELSE [allowed |-> TRUE, reason |-> NoReason, agents_remaining |-> agents_remaining]

\* update_usage
update_usage(user_quota, action, amount, t) ==
    LET usage == user_quota.current_usage
    IN  [user_quota EXCEPT
            !.current_usage =
                IF action = "AgentCreation"
                THEN [usage EXCEPT !.agents_created_this_month = @ + 1]
                ELSE IF amount.is_some
                THEN [usage EXCEPT !.tokens_used_this_month = @ + amount.value]
                ELSE usage,
            !.last_updated = t]

\* QuotaManager::validate_quota for AgentCreation and TokenUsage
ValidateQuota(principal_id, action, amount) ==
    /\ UNCHANGED <<policyVars, coordVars>>
    /\ UNCHANGED <<now, ticks, agents, routing_stats, dedup_cache, metrics, calls, lastOk>>
    /\ UNCHANGED <<instruction_requests, agent_creation_results, creations>>
    /\ IF principal_id \notin DOMAIN user_quotas
       THEN /\ reply' = [op |-> "validate_quota", principal_id |-> principal_id,
                         action |-> action, result |-> "No quota found for user",
                         allowed |-> FALSE]
            /\ UNCHANGED user_quotas
       ELSE IF action = "TokenUsage" /\ ~amount.is_some
       THEN /\ reply' = [op |-> "validate_quota", principal_id |-> principal_id,
                         action |-> action, result |-> "Token amount required",
                         allowed |-> FALSE]
            /\ UNCHANGED user_quotas
       ELSE LET user_quota == reset_monthly_usage_if_needed(user_quotas[principal_id], now)
                validation == IF action = "AgentCreation"
                              THEN validate_agent_creation_quota(user_quota)
                              ELSE validate_token_usage_quota(user_quota, amount.value)
            IN  /\ reply' = [op |-> "validate_quota", principal_id |-> principal_id,
                             action |-> action, result |-> "Ok",
                             allowed |-> validation.allowed,
                             amount |-> amount, reason |-> validation.reason]
                /\ user_quotas' =
                      IF validation.allowed
                      THEN Insert(user_quotas, principal_id,
                                  update_usage(user_quota, action, amount, now))
                      ELSE user_quotas

----------------------------------------------------------------------------
(* services/econ_integration.rs and api.rs create_agents_from_instructions *)

\* HashMap::remove
Remove(m, k) == [x \in (DOMAIN m) \ {k} |-> m[x]]

\* format!("req_{}", time())
request_id_at(t) == <<"req", t>>
NoRequest == request_id_at(NoTime)

local_quota_without_usage(user_principal, sub, t) ==
    [principal_id |-> user_principal,
     subscription_tier |-> sub.tier.name,
     limits |-> [max_agents |-> sub.tier.max_agents,
                 monthly_agent_creations |-> sub.tier.monthly_agent_creations,
                 token_limit |-> sub.tier.token_limit,
                 inference_rate |-> sub.tier.inference_rate],
     current_usage |->
         [agents_created_this_month |-> 0, tokens_used_this_month |-> 0,
          inferences_this_month |-> 0,
          last_reset_date |-> sub.current_usage.last_reset_date],
     last_updated |-> t]

\* sync_user_quota_from_economics: the UserQuota made of a subscription
local_quota(user_principal, sub, t) ==
    [principal_id |-> user_principal,
     subscription_tier |-> sub.tier.name,
     limits |-> [max_agents |-> sub.tier.max_agents,
                 monthly_agent_creations |-> sub.tier.monthly_agent_creations,
                 token_limit |-> sub.tier.token_limit,
                 inference_rate |-> sub.tier.inference_rate],
     current_usage |->
         [agents_created_this_month |-> sub.current_usage.agents_created_this_month,
          tokens_used_this_month |-> sub.current_usage.tokens_used_this_month,
          inferences_this_month |-> sub.current_usage.inferences_this_month,
          last_reset_date |-> sub.current_usage.last_reset_date],
     last_updated |-> t]

\* the error strings of a cross-canister call to the economics canister
econ_error(kind) ==
    IF kind = "CanisterError" THEN "Economics canister error"
    ELSE "Cross-canister call failed"

quota_allows_any(quota_validation) == TRUE

\* `if !quota_validation.allowed { return Err(..) }`
quota_allows(quota_validation) == quota_validation.allowed

\* what create_agents_from_instructions returns, with the request id it had
\* stored (NoRequest before the store) and the validation it had received
CreationReply(call, result, detail) ==
    [op |-> "create_agents_from_instructions", caller |-> call.caller,
     result |-> result, detail |-> detail,
     request_id |-> call.request_id,
     quota_validation |-> call.quota_validation]

\* the smallest free slot for a suspended call
FreeCreationSlot(maxCreations) ==
    CHOOSE c \in 1..maxCreations :
        /\ c \notin DOMAIN creations
        /\ \A d \in 1..(c - 1) : d \in DOMAIN creations

\* create_agents_from_instructions up to its first await, the call of
\* validate_agent_creation_quota on the economics canister
CreateAgentsFromInstructions(caller, instructions, agent_count, maxCreations) ==
    /\ Cardinality(DOMAIN creations) < maxCreations
    /\ UNCHANGED <<policyVars, coordVars>>
    /\ UNCHANGED <<now, ticks, agents, routing_stats, dedup_cache, metrics, calls, lastOk>>
    /\ UNCHANGED <<instruction_requests, agent_creation_results, user_quotas>>
    /\ LET call == [caller |-> caller, instructions |-> instructions,
                    agent_count |-> agent_count,
                    phase |-> "validate",
                    awaiting |-> "validate_agent_creation_quota",
                    quota_validation |-> [allowed |-> FALSE, reason |-> NoReason],
                    request_id |-> NoRequest]
       IN  IF ~require_caller_authenticated(caller)
           THEN /\ reply' = CreationReply(call, "Authentication required", "")
                /\ UNCHANGED creations
           ELSE /\ creations' = Insert(creations, FreeCreationSlot(maxCreations), call)
                /\ reply' = NoReply

\* the call returns an error with `?` or `return Err`: nothing is undone
CreationFails(c, result, detail) ==
    /\ reply' = CreationReply(creations[c], result, detail)
    /\ creations' = Remove(creations, c)

\* the reply of validate_agent_creation_quota resumes the call
EconValidationReply(c, outcome) ==
    /\ c \in DOMAIN creations
    /\ creations[c].awaiting = "validate_agent_creation_quota"
    /\ UNCHANGED <<policyVars, coordVars>>
    /\ UNCHANGED <<now, ticks, agents, routing_stats, dedup_cache, metrics, calls, lastOk>>
    /\ UNCHANGED <<instruction_requests, agent_creation_results, user_quotas>>
    /\ IF outcome.kind # "Ok"
       THEN CreationFails(c, econ_error(outcome.kind), "")
       ELSE IF ~quota_allows(outcome.validation)
       THEN /\ reply' = CreationReply([creations[c] EXCEPT
                                          !.quota_validation = outcome.validation],
                                      "Quota exceeded",
                                      IF outcome.validation.reason.is_some
                                      THEN outcome.validation.reason.value
                                      ELSE "Unknown reason")
            /\ creations' = Remove(creations, c)
       ELSE /\ creations' = [creations EXCEPT ![c].quota_validation = outcome.validation,
                                              ![c].phase = "sync",
                                              ![c].awaiting = "get_user_subscription"]
            /\ reply' = NoReply

\* sync_user_quota_from_economics returned Ok, having left `quotas` as the
\* quota mirror: the handler goes on in the same message execution.  After
\* the first sync it stores the InstructionRequest, spawns the agents and
\* suspends in track_agent_creation, which is a second sync; after that one it
\* returns Ok(request_id).
ResumeAfterSync(c, quotas) ==
    LET call == creations[c]
        request_id == request_id_at(now)
        stored == Insert(instruction_requests, request_id,
                         [request_id |-> request_id,
                          user_principal |-> call.caller,
                          instructions |-> call.instructions,
                          agent_count |-> call.agent_count,
                          created_at |-> now])
        result == spawn_agents_from_instructions(quotas, request_id, call.caller,
                                                 call.instructions, now)
    IN  IF call.phase = "sync"
        THEN /\ user_quotas' = result.user_quotas
             /\ agents' = result.agents
             /\ coordination_sessions' = result.coordination_sessions
             /\ agent_capability_profiles' = result.agent_capability_profiles
             /\ agent_creation_results' = result.agent_creation_results
             /\ IF result.ok
                THEN /\ instruction_requests' = stored
                     /\ creations' = [creations EXCEPT ![c].request_id = request_id,
                                                       ![c].phase = "track",
                                                       ![c].awaiting = "get_user_subscription"]
                     /\ reply' = NoReply
                ELSE /\ instruction_requests' = Remove(stored, request_id)
                     /\ reply' = CreationReply([call EXCEPT !.request_id = request_id],
                                               "Failed to spawn agents", result.error)
                     /\ creations' = Remove(creations, c)
        ELSE /\ user_quotas' = quotas
             /\ UNCHANGED <<agents, coordination_sessions, agent_capability_profiles,
                            agent_creation_results, instruction_requests>>
             /\ reply' = CreationReply(call, "Ok", "")
             /\ creations' = Remove(creations, c)

\* the reply of get_user_subscription, first or repeated, resumes the sync
EconSubscriptionReply(c, outcome) ==
    /\ c \in DOMAIN creations
    /\ creations[c].awaiting \in {"get_user_subscription", "get_user_subscription_again"}
    /\ UNCHANGED policyVars
    /\ UNCHANGED <<now, ticks, routing_stats, dedup_cache, metrics, calls, lastOk>>
    /\ UNCHANGED <<agent_message_queues, distributed>>
    /\ IF outcome.kind # "Ok"
       THEN /\ CreationFails(c, econ_error(outcome.kind), "")
            /\ UNCHANGED <<agents, coordination_sessions, agent_capability_profiles,
                           agent_creation_results, instruction_requests, user_quotas>>
       ELSE IF outcome.subscription.is_some
       THEN ResumeAfterSync(c, Insert(user_quotas, creations[c].caller,
                                      local_quota(creations[c].caller,
                                                  outcome.subscription.value, now)))
       ELSE /\ UNCHANGED <<agents, coordination_sessions, agent_capability_profiles,
                           agent_creation_results, instruction_requests, user_quotas>>
            /\ IF creations[c].awaiting = "get_user_subscription"
               THEN /\ creations' = [creations EXCEPT
                                        ![c].awaiting = "get_or_create_free_subscription"]
                    /\ reply' = NoReply
               ELSE CreationFails(c, "Failed to create user subscription", "")

\* the reply of get_or_create_free_subscription resumes the sync
EconFreeSubscriptionReply(c, kind) ==
    /\ c \in DOMAIN creations
    /\ creations[c].awaiting = "get_or_create_free_subscription"
    /\ UNCHANGED <<policyVars, coordVars>>
    /\ UNCHANGED <<now, ticks, agents, routing_stats, dedup_cache, metrics, calls, lastOk>>
    /\ UNCHANGED <<instruction_requests, agent_creation_results, user_quotas>>
    /\ IF kind # "Ok"
       THEN CreationFails(c, econ_error(kind), "")
       ELSE /\ creations' = [creations EXCEPT ![c].awaiting = "get_user_subscription_again"]
            /\ reply' = NoReply

----------------------------------------------------------------------------
(* api.rs: subscription tier *)

\* upgrade_subscription_tier: valid_tiers
ValidTiers == {"Free", "Basic", "Pro", "Enterprise"}

\* upgrade_subscription_tier: the limits written for a tier
tier_limits(tier) ==
    CASE tier = "Free" -> [max_agents |-> 3, monthly_agent_creations |-> 5,
                           token_limit |-> 1024, inference_rate |-> "Standard"]
      [] tier = "Basic" -> [max_agents |-> 10, monthly_agent_creations |-> 15,
                            token_limit |-> 2048, inference_rate |-> "Standard"]
      [] tier = "Pro" -> [max_agents |-> 25, monthly_agent_creations |-> 25,
                          token_limit |-> 4096, inference_rate |-> "Priority"]
      [] tier = "Enterprise" -> [max_agents |-> 100, monthly_agent_creations |-> 100,
                                 token_limit |-> 8192, inference_rate |-> "Premium"]

\* upgrade_subscription_tier: the quota is rewritten only `if let Some(quota)`,
\* and the call returns Ok(()) whether or not the caller has a quota
UpgradeSubscriptionTier(caller, tier) ==
    /\ UNCHANGED <<policyVars, coordVars>>
    /\ UNCHANGED <<now, ticks, agents, routing_stats, dedup_cache, metrics, calls, lastOk>>
    /\ UNCHANGED <<instruction_requests, agent_creation_results, creations>>
    /\ IF ~require_caller_authenticated(caller)
       THEN /\ reply' = [op |-> "upgrade_subscription_tier", caller |-> caller,
                         tier |-> tier, result |-> "Authentication required"]
            /\ UNCHANGED user_quotas
       ELSE IF tier \notin ValidTiers
       THEN /\ reply' = [op |-> "upgrade_subscription_tier", caller |-> caller,
                         tier |-> tier, result |-> "Invalid tier"]
            /\ UNCHANGED user_quotas
       ELSE /\ reply' = [op |-> "upgrade_subscription_tier", caller |-> caller,
                         tier |-> tier, result |-> "Ok"]
            /\ user_quotas' =
                  IF caller \in DOMAIN user_quotas
                  THEN [user_quotas EXCEPT ![caller].subscription_tier = tier,
                                           ![caller].last_updated = now,
                                           ![caller].limits = tier_limits(tier)]
                  ELSE user_quotas

\* parse_instructions and generate_agent_specs applied to inputs held in reply:
\* ParseInstructions runs the analysis of a text (parse, then the spec list of
\* what was parsed), GenerateAgentSpecs runs generate_agent_specs on a
\* ParsedRequirements value given directly, as the unit test does
ParseInstructions ==
    /\ reply.op = "input"
    /\ UNCHANGED <<now, ticks, agents, routing_stats, dedup_cache, metrics, calls, lastOk>>
    /\ UNCHANGED extVars
    /\ reply' = [op |-> "parse_instructions",
                 instructions |-> reply.instructions,
                 parsed |-> parse_instructions(reply.instructions),
                 specs |-> generate_agent_specs(parse_instructions(reply.instructions))]

GenerateAgentSpecs ==
    /\ reply.op = "input"
    /\ UNCHANGED <<now, ticks, agents, routing_stats, dedup_cache, metrics, calls, lastOk>>
    /\ UNCHANGED extVars
    /\ reply' = [op |-> "generate_agent_specs",
                 parsed |-> reply.parsed,
                 specs |-> generate_agent_specs(reply.parsed)]

\* determine_spawning_status and store_spawning_result applied to a list of
\* spawned agents held in reply
StoreSpawningResult ==
    /\ reply.op = "spawned"
    /\ UNCHANGED <<now, ticks, agents, routing_stats, dedup_cache, metrics, calls, lastOk>>
    /\ UNCHANGED <<policyVars, coordVars>>
    /\ UNCHANGED <<instruction_requests, user_quotas, creations>>
    /\ LET status == determine_spawning_status(reply.spawned_agents)
       IN  /\ agent_creation_results' =
                 store_spawning_result(agent_creation_results, reply.request_id,
                                       reply.spawned_agents, status)
           /\ reply' = [op |-> "store_spawning_result", request_id |-> reply.request_id,
                        spawned_agents |-> reply.spawned_agents, status |-> status]

----------------------------------------------------------------------------
(* Specifications *)

\* Spec: the dedup cache over the 24 h horizon with every entry point, one
\* fan-out in flight at a time, over at most MaxCoreAgents registrations.
CoreRegistrations ==
    [agent_principal : {"p1"}, model_id : {"m1"}, capabilities : {{"code"}}]
CoreRequests ==
    [request_id : RequestIds, capabilities_required : {<<"code">>, <<"test">>},
     routing_mode : {"Unicast"}]
CoreKs == {3}
CoreWindows == {100}
CoreResps == {RespGood}

Next ==
    \/ \E dt \in Steps : Tick(dt, MaxTicks)
    \/ \E c \in Callers, g \in CoreRegistrations : RegisterAgent(c, g, MaxCoreAgents)
    \/ \E c \in Callers, q \in CoreRequests, o \in Orders(DOMAIN agents) : RouteRequest(c, q, o)
    \/ \E c \in Callers, q \in CoreRequests, k \in CoreKs, w \in CoreWindows,
          o \in Orders(DOMAIN agents) : RouteBestResult(c, q, k, w, o, 1)
    \/ \E i \in 1..FanoutCap, x \in Outcomes(CoreResps) : InferReply(1, i, x)
    \/ CleanupExpired
    \/ \E r \in RequestIds : GetCachedResult(r)
    \/ Health

Spec == Init /\ [][Next]_vars

\* SpecConcurrent: up to MaxCalls fan-outs suspended at once, interleaved with
\* route_request, within the first MaxFanoutTicks small clock steps.
NextConcurrent ==
    \/ Tick(SmallStep, MaxFanoutTicks)
    \/ \E c \in Authenticated, g \in CoreRegistrations : RegisterAgent(c, g, MaxCoreAgents)
    \/ \E c \in Authenticated, q \in CoreRequests, o \in Orders(DOMAIN agents) : RouteRequest(c, q, o)
    \/ \E c \in Authenticated, q \in CoreRequests, k \in CoreKs, w \in CoreWindows,
          o \in Orders(DOMAIN agents) : RouteBestResult(c, q, k, w, o, MaxCalls)
    \/ \E c \in DOMAIN calls, i \in 1..FanoutCap, x \in Outcomes(CoreResps) : InferReply(c, i, x)

SpecConcurrent == Init /\ [][NextConcurrent]_vars

\* SpecSelect: route_request in every mode over the registries that up to
\* MaxAgents registrations and any health updates produce.
Registrations ==
    {[agent_principal |-> "p1", model_id |-> "m1", capabilities |-> {"code"}],
     [agent_principal |-> "p1", model_id |-> "m2", capabilities |-> {"code", "test"}],
     [agent_principal |-> "p2", model_id |-> "m1", capabilities |-> {"code"}],
     [agent_principal |-> "p2", model_id |-> "m2", capabilities |-> {"code", "test"}]}
SelectRequests ==
    [request_id : {"r1"}, capabilities_required : RequiredCaps, routing_mode : Modes]

NextSelect ==
    \/ \E c \in Authenticated, g \in Registrations : RegisterAgent(c, g, MaxAgents)
    \/ \E c \in Authenticated, a \in DOMAIN agents, h \in HealthInputs : UpdateAgentHealth(c, a, h)
    \/ \E c \in Authenticated, q \in SelectRequests, o \in Orders(DOMAIN agents) : RouteRequest(c, q, o)

SpecSelect == Init /\ [][NextSelect]_vars

\* SpecFanout: one fan-out at a time over up to MaxFanoutAgents registrations,
\* with every mix of failed, slow and fast replies.
FanoutRegistrations == {g \in Registrations : g.agent_principal = "p1" \/ g.model_id = "m1"}
FanoutRequests ==
    [request_id : {"r1"}, capabilities_required : {<<"code">>}, routing_mode : {"Broadcast"}]
Ks == {0, 2, 4}
Windows == {100, 100 * NanosPerMs}
Resps == {RespEmpty, RespGood, RespLong, RespBadJson}

NextFanout ==
    \/ Tick(SmallStep, MaxFanoutTicks)
    \/ \E c \in Authenticated, g \in FanoutRegistrations : RegisterAgent(c, g, MaxFanoutAgents)
    \/ \E c \in Authenticated, q \in FanoutRequests, k \in Ks, w \in Windows,
          o \in Orders(DOMAIN agents) : RouteBestResult(c, q, k, w, o, 1)
    \/ \E i \in 1..FanoutCap, x \in Outcomes(Resps) : InferReply(1, i, x)

SpecFanout == Init /\ [][NextFanout]_vars

\* SpecCompetition: Competition-mode route_request over registries of up to
\* MaxCompetitionAgents agents (more than the 5 the mode returns), iterated in
\* several of the orders the registry map can have; health reports arrive for
\* the agents of two of the three principals.
CompetitionBase ==
    <<[agent_principal |-> "p1", model_id |-> "m1", capabilities |-> {"code"}],
      [agent_principal |-> "p1", model_id |-> "m2", capabilities |-> {"code", "test"}],
      [agent_principal |-> "p2", model_id |-> "m1", capabilities |-> {"code"}],
      [agent_principal |-> "p2", model_id |-> "m2", capabilities |-> {"code", "test"}],
      [agent_principal |-> "p3", model_id |-> "m1", capabilities |-> {"code"}],
      [agent_principal |-> "p3", model_id |-> "m2", capabilities |-> {"code", "test"}]>>
CompetitionRegistrations == Range(CompetitionBase)
CompetitionRequests ==
    [request_id : {"r1"}, capabilities_required : {<<"code", "test">>},
     routing_mode : {"Competition"}]
CompetitionHealthInputs == {5, 10, 50}
CompetitionUpdated == {a \in DOMAIN agents : agents[a].agent_principal \in {"p2", "p3"}}

\* some of the orders in which a registry with key set S can be iterated:
\* the rotations of one order and their reversals
IterationOrders(S) ==
    LET ids == [i \in DOMAIN CompetitionBase |->
                   generate_agent_id(CompetitionBase[i].agent_principal,
                                     CompetitionBase[i].model_id, now)]
        base == SelectSeq(ids, LAMBDA id : id \in S)
        n == Len(base)
        Rot(k) == [i \in 1..n |-> base[((i + k - 1) % n) + 1]]
        Rev(q) == [i \in 1..n |-> q[n + 1 - i]]
    IN  IF n = 0 THEN {<<>>}
        ELSE {Rot(k) : k \in 0..n - 1} \cup {Rev(Rot(k)) : k \in 0..n - 1}

NextCompetition ==
    \/ \E c \in Authenticated, g \in CompetitionRegistrations :
          RegisterAgent(c, g, MaxCompetitionAgents)
    \/ \E c \in Authenticated, a \in CompetitionUpdated, h \in CompetitionHealthInputs :
          UpdateAgentHealth(c, a, h)
    \/ \E c \in Authenticated, q \in CompetitionRequests, o \in IterationOrders(DOMAIN agents) :
          RouteRequest(c, q, o)

SpecCompetition == Init /\ [][NextCompetition]_vars

\* SpecScore: route_request over the registries of two agents that registration
\* and health reports produce, with every capability set and several health
\* scores, so that calculate_agent_score is applied to every pair of them.
ScoreHealths == {0, 10, 35, 70, 100}
ScoreAgents ==
    [agent_principal : {"p1"}, model_id : {"m1"},
     capabilities : SUBSET Caps, health_score : ScoreHealths]
  \cup
    [agent_principal : {"p2"}, model_id : {"m1"},
     capabilities : SUBSET Caps, health_score : ScoreHealths]
ScoreRegistry(a, b) ==
    LET rec(x) == [agent_id |-> generate_agent_id(x.agent_principal, x.model_id, 0),
                   agent_principal |-> x.agent_principal, model_id |-> x.model_id,
                   capabilities |-> x.capabilities, health_score |-> x.health_score]
    IN  Insert(Insert(<<>>, rec(a).agent_id, rec(a)), rec(b).agent_id, rec(b))

InitScore ==
    /\ now = 0
    /\ ticks = 0
    /\ \E a, b \in ScoreAgents :
          /\ a.agent_principal = "p1" /\ b.agent_principal = "p2"
          /\ agents = ScoreRegistry(a, b)
    /\ routing_stats = [id \in DOMAIN agents |->
          [agent_id |-> id, total_requests |-> 0,
           success_rate |-> 100, average_response_time_ms |-> 0]]
    /\ dedup_cache = <<>>
    /\ metrics = [InitMetrics EXCEPT !.total_agents = 2]
    /\ calls = [c \in 1..MaxCalls |-> [active |-> FALSE]]
    /\ reply = NoReply
    /\ lastOk = [r \in AllRequestIds |-> [route_request |-> NoTime, route_best_result |-> NoTime]]
    /\ InitExt

NextScore ==
    \E c \in Authenticated, q \in SelectRequests, o \in Orders(DOMAIN agents) : RouteRequest(c, q, o)

SpecScore == InitScore /\ [][NextScore]_vars

\* SpecGuards: route_request and route_best_result from anonymous and
\* authenticated callers with well-formed and ill-formed request ids, over the
\* 24 h horizon so that the cache holds expired entries a sweep would remove.
GuardRequests ==
    [request_id : GuardIds, capabilities_required : {<<"code">>}, routing_mode : {"Unicast"}]

NextGuards ==
    \/ \E dt \in Steps : Tick(dt, MaxTicks)
    \/ \E c \in Authenticated, g \in CoreRegistrations : RegisterAgent(c, g, MaxCoreAgents)
    \/ \E c \in Callers, q \in GuardRequests, o \in Orders(DOMAIN agents) : RouteRequest(c, q, o)
    \/ \E c \in Callers, q \in GuardRequests, k \in CoreKs, w \in CoreWindows,
          o \in Orders(DOMAIN agents) : RouteBestResult(c, q, k, w, o, 1)
    \/ \E i \in 1..FanoutCap, x \in Outcomes(CoreResps) : InferReply(1, i, x)

SpecGuards == Init /\ [][NextGuards]_vars

\* SpecAuth: the guarded entry points and the two queries, from anonymous and
\* authenticated callers.
Policies ==
    [topology : {"Mesh"}, mode : {"Parallel", "Sequential"},
     top_k : {1, 3}, window_ms : {100, 500}]
StatsArgs == {[is_some |-> FALSE]} \cup {[is_some |-> TRUE, id |-> a] : a \in DOMAIN agents}

NextAuth ==
    \/ \E c \in Callers, g \in CoreRegistrations : RegisterAgent(c, g, MaxCoreAgents)
    \/ \E c \in Callers, a \in DOMAIN agents, h \in HealthInputs : UpdateAgentHealth(c, a, h)
    \/ \E c \in Callers, a \in DOMAIN agents, st \in StatusInputs : UpdateAgentStatus(c, a, st)
    \/ \E c \in Callers, q \in CoreRequests, o \in Orders(DOMAIN agents) : RouteRequest(c, q, o)
    \/ \E c \in Callers, a \in StatsArgs, o \in Orders(DOMAIN agents) : GetRoutingStats(c, a, o)
    \/ \E c \in Callers, y \in Policies : SetSwarmPolicy(c, y)
    \/ \E c \in Callers : GetSwarmPolicy(c)
    \/ Health

SpecAuth == Init /\ [][NextAuth]_vars

\* SpecSessions: coordination sessions created, written to, read and swept
\* over a horizon longer than the one-hour session timeout.
SessionSteps == {SmallStep, SessionTimeout}
Participants == {<<>>, <<"a1", "a2">>}
SessionIds == DOMAIN coordination_sessions.map \cup {session_id_at(NoTime)}
Senders == {"a1"}
Recipients == {[is_some |-> FALSE]}
MessageKinds == {"TaskRequest"}

NextSessions ==
    \/ \E dt \in SessionSteps : Tick(dt, MaxTicks)
    \/ \E u \in Participants \ {<<>>} : CreateCoordinationSession("objective", u, u[1])
    \/ \E u \in Participants : InitiateCollaboration("problem", u)
    \/ \E id \in SessionIds, f \in Senders, t \in Recipients, m \in MessageKinds :
          SendCoordinationMessage(id, f, t, m)
    \/ CleanupExpiredSessions
    \/ \E id \in SessionIds : GetCoordinationSession(id)

SpecSessions == Init /\ [][NextSessions]_vars

\* SpecQueues: up to MaxDistributed tasks distributed to one agent's queue,
\* which the agent may read (and so empty) at any point.  The n-th task
\* distributed carries n as its description, which tells the messages apart.
QueueAgents == {"a1"}
QueueMetrics == {[success_rate |-> 100, current_load |-> 0, reliability_score |-> 100]}
Availabilities == {"Available", "Busy"}
TaskCaps == {<<"code">>, <<"test">>}
Priorities == {"Normal"}

NextQueues ==
    \/ \E a \in QueueAgents, pm \in QueueMetrics, av \in Availabilities :
          UpdateAgentProfile(a, {"code"}, pm, av)
    \/ \E r \in TaskCaps, y \in Priorities, o \in Orders(DOMAIN agent_capability_profiles.map) :
          DistributeTask(distributed, r, y, o)
    \/ \E a \in QueueAgents \cup {"a2"} : GetAgentMessages(a)

SpecQueues == Init /\ [][NextQueues]_vars

\* SpecCreation: create_agents_from_instructions calls, up to MaxCreations of
\* them suspended at once, with every reply the economics canister can give
\* at each await, and QuotaManager::validate_quota on the quota mirror.
Instructions == {{"hello"}, {"code"}}
NoCount == [is_some |-> FALSE, value |-> 0]
EconKinds == {"Ok", "CanisterError", "CallFailed"}
Validations ==
    {[allowed |-> TRUE, reason |-> NoReason],
     [allowed |-> FALSE, reason |-> Reason("Monthly agent creation limit reached")],
     [allowed |-> FALSE, reason |-> NoReason]}
ValidationOutcomes ==
    [kind : {"Ok"}, validation : Validations]
        \cup [kind : EconKinds \ {"Ok"}, validation : {[allowed |-> FALSE, reason |-> NoReason]}]
FreeTier ==
    [name |-> "Free", max_agents |-> 3, monthly_agent_creations |-> 5,
     token_limit |-> 1024, inference_rate |-> "Standard"]
Usages ==
    [agents_created_this_month : {4, 20}, tokens_used_this_month : {0},
     inferences_this_month : {0}, last_reset_date : {0}]
Subscriptions == [tier : {FreeTier}, current_usage : Usages]
NoSubscription ==
    [is_some |-> FALSE,
     value |-> [tier |-> FreeTier,
                current_usage |-> [agents_created_this_month |-> 0,
                                   tokens_used_this_month |-> 0,
                                   inferences_this_month |-> 0, last_reset_date |-> 0]]]
SubscriptionOutcomes ==
    [kind : {"Ok"},
     subscription : {NoSubscription} \cup [is_some : {TRUE}, value : Subscriptions]]
        \cup [kind : EconKinds \ {"Ok"}, subscription : {NoSubscription}]
QuotaActions == {"AgentCreation"}
Amounts == {NoAmount}

NextCreation ==
    \/ Tick(SmallStep, MaxCreationTicks)
    \/ \E c \in Callers, i \in Instructions :
          CreateAgentsFromInstructions(c, i, NoCount, MaxCreations)
    \/ \E c \in DOMAIN creations, o \in ValidationOutcomes : EconValidationReply(c, o)
    \/ \E c \in DOMAIN creations, o \in SubscriptionOutcomes : EconSubscriptionReply(c, o)
    \/ \E c \in DOMAIN creations, k \in EconKinds : EconFreeSubscriptionReply(c, k)
    \/ \E p \in Authenticated, a \in QuotaActions, m \in Amounts : ValidateQuota(p, a, m)

SpecCreation == Init /\ [][NextCreation]_vars

\* SpecHealth: every writer of health_score, over up to MaxHealthAgents
\* registered agents and the agent that a creation call spawns.
HealthValidations == [kind : {"Ok"}, validation : {[allowed |-> TRUE, reason |-> NoReason]}]
HealthSubscriptions ==
    [kind : {"Ok"},
     subscription : {[is_some |-> TRUE,
                      value |-> [tier |-> FreeTier,
                                 current_usage |-> NoSubscription.value.current_usage]]}]

NextHealth ==
    \/ \E c \in Principals, g \in Registrations : RegisterAgent(c, g, MaxHealthAgents)
    \/ \E c \in Principals, a \in DOMAIN agents, h \in HealthReports : UpdateAgentHealth(c, a, h)
    \/ \E c \in Principals, a \in DOMAIN agents, st \in StatusInputs : UpdateAgentStatus(c, a, st)
    \/ \E c \in Authenticated : CreateAgentsFromInstructions(c, {"hello"}, NoCount, 1)
    \/ \E c \in DOMAIN creations, o \in HealthValidations : EconValidationReply(c, o)
    \/ \E c \in DOMAIN creations, o \in HealthSubscriptions : EconSubscriptionReply(c, o)

SpecHealth == Init /\ [][NextHealth]_vars

\* SpecTier: upgrade_subscription_tier with valid and invalid tier names, by
\* callers with and without a quota mirror; the mirror is written by the sync
\* of a creation call and its usage moved by validate_quota.
TierNames == ValidTiers \cup {"Invalid"}

NextTier ==
    \/ Tick(SmallStep, MaxTierTicks)
    \/ \E c \in Callers, t \in TierNames : UpgradeSubscriptionTier(c, t)
    \/ \E c \in Authenticated : CreateAgentsFromInstructions(c, {"hello"}, NoCount, 1)
    \/ \E c \in DOMAIN creations, o \in HealthValidations : EconValidationReply(c, o)
    \/ \E c \in DOMAIN creations, o \in HealthSubscriptions : EconSubscriptionReply(c, o)
    \/ \E p \in Authenticated, a \in QuotaActions, m \in Amounts : ValidateQuota(p, a, m)

SpecTier == Init /\ [][NextTier]_vars

\* SpecGate: route_request in every mode and route_best_result over registries
\* of up to MaxGateAgents agents whose health is moved across the 0.1 threshold
\* by update_agent_health and update_agent_status, also while a fan-out is
\* suspended.
GateRegistrations == {g \in Registrations : g.agent_principal = "p1" \/ g.model_id = "m2"}
GateHealths == {10}
GateStatuses == {"error"}
GateRequests ==
    [request_id : {"r1"}, capabilities_required : {<<"test">>}, routing_mode : Modes]
GateKs == {2}
GateWindows == {100 * NanosPerMs}
GateResps == {RespGood}

NextGate ==
    \/ \E c \in Authenticated, g \in GateRegistrations : RegisterAgent(c, g, MaxGateAgents)
    \/ \E c \in Authenticated, a \in DOMAIN agents, h \in GateHealths : UpdateAgentHealth(c, a, h)
    \/ \E c \in Authenticated, a \in DOMAIN agents, st \in GateStatuses : UpdateAgentStatus(c, a, st)
    \/ \E c \in Authenticated, q \in GateRequests, o \in Orders(DOMAIN agents) : RouteRequest(c, q, o)
    \/ \E c \in Authenticated, q \in GateRequests, k \in GateKs, w \in GateWindows,
          o \in Orders(DOMAIN agents) : RouteBestResult(c, q, k, w, o, 1)
    \/ \E i \in 1..FanoutCap, x \in Outcomes(GateResps) : InferReply(1, i, x)

SpecGate == Init /\ [][NextGate]_vars

\* SpecDispatch: one fan-out at a time with k below, at and above the cap, over
\* registries of up to MaxDispatchAgents capable agents.
DispatchRequests ==
    [request_id : {"r1"}, capabilities_required : {<<"code">>}, routing_mode : {"Broadcast"}]
DispatchKs == {0, 2, 4}
DispatchWindows == {100 * NanosPerMs}
DispatchResps == {RespGood}

NextDispatch ==
    \/ \E c \in Authenticated, g \in Registrations : RegisterAgent(c, g, MaxDispatchAgents)
    \/ \E c \in Authenticated, q \in DispatchRequests, k \in DispatchKs, w \in DispatchWindows,
          o \in Orders(DOMAIN agents) : RouteBestResult(c, q, k, w, o, 1)
    \/ \E i \in 1..FanoutCap, x \in Outcomes(DispatchResps) : InferReply(1, i, x)

SpecDispatch == Init /\ [][NextDispatch]_vars

\* SpecAnalyzer: the instruction analyzer as a function of its input.  A text
\* is the set of table keywords it contains; the texts are all combinations of
\* one keyword from each of five patterns and three of the four complexity
\* words, so that zero to five patterns match and the cap of 10 is reached.
\* The ParsedRequirements values have counts below, at and above the number
\* of specializations.
MaxSpecCount == 4
AnalyzerKeywords == {"code", "test", "review", "write", "data", "team", "multiple", "complex"}
AnalyzerTexts == SUBSET AnalyzerKeywords
AnalyzerSpecializations ==
    {<<>>, <<"Software Developer">>, <<"Software Developer", "Test Engineer">>,
     <<"Software Developer", "Test Engineer", "Code Reviewer">>,
     <<"Test Engineer", "Data Analyst">>}
AnalyzerParsed ==
    [agent_count : 0..MaxSpecCount, specializations : AnalyzerSpecializations]

InitAnalyzer ==
    /\ now = 0
    /\ ticks = 0
    /\ agents = <<>>
    /\ routing_stats = <<>>
    /\ dedup_cache = <<>>
    /\ metrics = InitMetrics
    /\ calls = [c \in 1..MaxCalls |-> [active |-> FALSE]]
    /\ \E x \in AnalyzerTexts, p \in AnalyzerParsed :
          reply = [op |-> "input", instructions |-> x, parsed |-> p]
    /\ lastOk = [r \in AllRequestIds |-> [route_request |-> NoTime, route_best_result |-> NoTime]]
    /\ InitExt

NextAnalyzer ==
    \/ ParseInstructions
    \/ GenerateAgentSpecs

SpecAnalyzer == InitAnalyzer /\ [][NextAnalyzer]_vars

\* SpecSpawnStatus: the spawning status as a function of the spawned agents.
\* Every list of up to MaxSpawned agents over the four AgentStatus values is
\* an initial input, so all-Ready, all-Error, mixed and Ready-free lists occur.
MaxSpawned == 4
AgentStatuses == {"Initializing", "Ready", "Active", "Error"}
SpawnedLists ==
    UNION {[1..n -> AgentStatuses] : n \in 0..MaxSpawned}

InitSpawnStatus ==
    /\ now = 0
    /\ ticks = 0
    /\ agents = <<>>
    /\ routing_stats = <<>>
    /\ dedup_cache = <<>>
    /\ metrics = InitMetrics
    /\ calls = [c \in 1..MaxCalls |-> [active |-> FALSE]]
    /\ \E s \in SpawnedLists :
          reply = [op |-> "spawned", request_id |-> request_id_at(0),
                   spawned_agents |->
                       [i \in DOMAIN s |->
                           [agent_id |-> spawned_agent_id("p1", GeneralistNames[i], 0),
                            status |-> s[i]]]]
    /\ lastOk = [r \in AllRequestIds |-> [route_request |-> NoTime, route_best_result |-> NoTime]]
    /\ InitExt

NextSpawnStatus == StoreSpawningResult

SpecSpawnStatus == InitSpawnStatus /\ [][NextSpawnStatus]_vars

\* SpecTeam: spawned teams next to sessions made by the session operations.
\* "hello" matches no pattern and spawns one agent, "code" spawns three; the
\* creation passes its quota checks; create_coordination_session takes its
\* coordinator as an argument of its own, initiate_collaboration takes the
\* first participant.
MaxTeamTicks == 1
TeamCoordinators == {"a1", "a2"}

NextTeam ==
    \/ Tick(SmallStep, MaxTeamTicks)
    \/ \E c \in Authenticated, i \in Instructions :
          CreateAgentsFromInstructions(c, i, NoCount, 1)
    \/ \E c \in DOMAIN creations, o \in HealthValidations : EconValidationReply(c, o)
    \/ \E c \in DOMAIN creations, o \in HealthSubscriptions : EconSubscriptionReply(c, o)
    \/ \E u \in Participants, k \in TeamCoordinators :
          CreateCoordinationSession("objective", u, k)
    \/ \E u \in Participants : InitiateCollaboration("problem", u)

SpecTeam == Init /\ [][NextTeam]_vars

\* SpecTokens: token validations of one principal between syncs (which bring
\* a Free subscription with no tokens used) and tier changes between Free
\* (1024 tokens) and Pro (4096 tokens).  The amounts are none, 0, and two
\* that fit Pro but not Free.
TokenTiers == {"Free", "Pro"}
TokenAmounts == {NoAmount, Amount(0), Amount(1000), Amount(2000)}

NextTokens ==
    \/ \E c \in Authenticated, t \in TokenTiers : UpgradeSubscriptionTier(c, t)
    \/ \E c \in Authenticated : CreateAgentsFromInstructions(c, {"hello"}, NoCount, 1)
    \/ \E c \in DOMAIN creations, o \in HealthValidations : EconValidationReply(c, o)
    \/ \E c \in DOMAIN creations, o \in HealthSubscriptions : EconSubscriptionReply(c, o)
    \/ \E p \in Authenticated, m \in TokenAmounts : ValidateQuota(p, "TokenUsage", m)

SpecTokens == Init /\ [][NextTokens]_vars

----------------------------------------------------------------------------
(* Claims *)

Live(cache, t) == {r \in DOMAIN cache : cache[r].ttl_expires_at > t}

FanoutDone == reply.op = "route_best_result" /\ reply.result = "Ok"

RouteDone(mode) ==
    reply.op = "route_request" /\ reply.result = "Ok" /\ reply.mode = mode

\* the candidates of a request: healthy (>= 0.1) and offering a required capability
CandidateSet(required) ==
    {a \in DOMAIN agents :
        /\ agents[a].health_score >= 10
        /\ \E i \in DOMAIN required : required[i] \in agents[a].capabilities}

\* C1: once route_request(r) has returned a RouteResponse at time t, every later
\* route_request(r) that reaches the routing service before t + 24 h returns
\* "Duplicate request ID" and no RouteResponse.
C1_AtMostOnceAdmission ==
    [][\A r \in RequestIds :
          (/\ reply'.op = "route_request"
           /\ reply'.request_id = r
           /\ reply'.result # "Authentication required"
           /\ lastOk[r].route_request # NoTime
           /\ now < lastOk[r].route_request + TTL_DURATION)
          => reply'.result = "Duplicate request ID"]_vars

\* C1 witness: a route_request rejected as a duplicate well after the first
\* response, still inside the 24 h window
C1_Witness ==
    /\ reply.op = "route_request"
    /\ reply.result = "Duplicate request ID"
    /\ lastOk[reply.request_id].route_request # NoTime
    /\ now = lastOk[reply.request_id].route_request + TTL_DURATION - SmallStep

\* C2: a route_best_result call whose request_id has a non-expired dedup entry
\* is rejected as a duplicate, dispatching no inference call and changing no state.
C2_DedupBeforeDispatch ==
    [][(/\ reply'.op = "route_best_result"
        /\ reply'.result \notin {"Ok", "Authentication required"}
        /\ reply'.request_id \in Live(dedup_cache, now))
       => (/\ reply'.result = "Duplicate request ID"
           /\ calls' = calls
           /\ dedup_cache' = dedup_cache)]_vars

\* C3: of two route_best_result calls with the same request_id in flight at
\* once, at most one has dispatched inference calls.
C3_AtMostOneInFlight ==
    \A c1, c2 \in InFlight :
        c1 # c2 => calls[c1].request_id # calls[c2].request_id

\* C4: an entry with ttl_expires_at <= now is observed on no read path: the
\* duplicate check reports it absent, get_cached_result returns none for it and
\* health does not count it in dedup_cache_size.
C4_ExpiredNeverObserved ==
    /\ (reply.op = "route_request" /\ reply.result = "Duplicate request ID")
          => reply.request_id \in Live(dedup_cache, now)
    /\ (reply.op = "get_cached_result" /\ reply.result.some)
          => reply.request_id \in Live(dedup_cache, now)
    /\ reply.op = "health"
          => reply.dedup_cache_size = Cardinality(Live(dedup_cache, now))

\* C5: when route_best_result returns a response with a winner, the winner's id
\* is the first element of selected_agents and is the id in selection_criteria.
C5_WinnerFirst ==
    FanoutDone =>
        /\ reply.best_agent.some <=> reply.response.selection_criteria.winner # EmptyString
        /\ reply.best_agent.some =>
              /\ reply.response.selected_agents # <<>>
              /\ reply.response.selected_agents[1] = reply.best_agent.agent_id
              /\ reply.response.selection_criteria.winner = reply.best_agent.agent_id

\* C5 witness: a winner that was not first in dispatch order, returned first
C5_Witness ==
    /\ FanoutDone
    /\ reply.best_agent.some
    /\ Len(reply.response.selected_agents) >= 2
    /\ reply.results[1].st = "ok"
    /\ reply.results[1].agent_id # reply.best_agent.agent_id

\* the successful results whose elapsed time, in milliseconds, is within the window
InWindowMs(results, window_ms) ==
    {i \in DOMAIN results :
        results[i].st = "ok" /\ results[i].elapsed \div NanosPerMs <= window_ms}

\* C6: the winner is the highest-scoring successful response whose elapsed time
\* in milliseconds is at most window_ms; with none inside the window there is
\* no winner.
C6_WindowArbitration ==
    FanoutDone =>
        LET inside == InWindowMs(reply.results, reply.response.selection_criteria.window_ms)
        IN  /\ inside = {} <=> ~reply.best_agent.some
            /\ reply.best_agent.some =>
                  /\ \E i \in inside : reply.results[i].agent_id = reply.best_agent.agent_id
                  /\ \A i \in inside : reply.best_agent.score >= reply.results[i].score

\* C7: selected_agents holds exactly the ids of all agents an inference call
\* was dispatched to, failed and late ones included.
C7_AllDispatchedReturned ==
    FanoutDone =>
        /\ Range(reply.response.selected_agents)
              = {reply.results[i].agent_id : i \in DOMAIN reply.results}
        /\ Len(reply.response.selected_agents) = Len(reply.results)

\* C8: if every dispatched inference call fails, route_best_result returns an
\* error and records no dedup entry.
C8_AllFailedIsError ==
    FanoutDone => \E i \in DOMAIN reply.results : reply.results[i].st = "ok"

\* C9: a successful Unicast route_request returns exactly one agent id, a
\* candidate whose score is at least the score of every candidate.
C9_UnicastArgMax ==
    RouteDone("Unicast") =>
        LET sel == reply.response.selected_agents
            cands == CandidateSet(reply.required)
        IN  /\ Len(sel) = 1
            /\ sel[1] \in cands
            /\ \A c \in cands : Score(sel[1], reply.required) >= Score(c, reply.required)

\* C9 witness: Unicast over candidates of different scores
C9_Witness ==
    /\ RouteDone("Unicast")
    /\ \E c, d \in CandidateSet(reply.required) :
          Score(c, reply.required) < Score(d, reply.required)

\* C10: a successful Broadcast route_request returns min(3, number of
\* candidates) agent ids, the highest-scoring candidates, in descending score order.
C10_BroadcastTopThree ==
    RouteDone("Broadcast") =>
        LET sel == reply.response.selected_agents
            cands == CandidateSet(reply.required)
        IN  /\ Len(sel) = Min(3, Cardinality(cands))
            /\ Range(sel) \subseteq cands
            /\ Cardinality(Range(sel)) = Len(sel)
            /\ \A i, j \in DOMAIN sel :
                  i < j => Score(sel[i], reply.required) >= Score(sel[j], reply.required)
            /\ \A c \in cands \ Range(sel) : \A i \in DOMAIN sel :
                  Score(sel[i], reply.required) >= Score(c, reply.required)

\* C10 witness: four candidates, three returned in strictly descending order,
\* the one left out scoring strictly less
C10_Witness ==
    /\ RouteDone("Broadcast")
    /\ Cardinality(CandidateSet(reply.required)) = 4
    /\ LET sel == reply.response.selected_agents
       IN  /\ Len(sel) = 3
           /\ Score(sel[1], reply.required) > Score(sel[2], reply.required)
           /\ Score(sel[2], reply.required) > Score(sel[3], reply.required)
           /\ \E c \in CandidateSet(reply.required) \ Range(sel) :
                 Score(c, reply.required) < Score(sel[3], reply.required)


ScoreSeq(sel, required) == [i \in DOMAIN sel |-> Score(sel[i], required)]

\* C11: a successful Competition route_request returns min(5, number of
\* candidates) agent ids, the highest-scoring candidates (health >= 0.1 being
\* the only floor) in descending score order, and the list does not depend on
\* anything but the registry and the request: whatever the iteration order of the
\* registry, the scores returned are the same, and so is the list itself when
\* no two candidates tie.
C11_CompetitiveTopK ==
    RouteDone("Competition") =>
        LET sel == reply.response.selected_agents
            required == reply.required
            cands == CandidateSet(required)
        IN  /\ Len(sel) = Min(5, Cardinality(cands))
            /\ Range(sel) \subseteq cands
            /\ Cardinality(Range(sel)) = Len(sel)
            /\ \A i, j \in DOMAIN sel :
                  i < j => Score(sel[i], required) >= Score(sel[j], required)
            /\ \A c \in cands \ Range(sel) : \A i \in DOMAIN sel :
                  Score(sel[i], required) >= Score(c, required)
            /\ \A o \in IterationOrders(DOMAIN agents) :
                  LET again == select_competitive_agents(o, required, CompetitionK)
                  IN  /\ ScoreSeq(again, required) = ScoreSeq(sel, required)
                      /\ (\A c, d \in cands : c # d => Score(c, required) # Score(d, required))
                            => again = sel

\* C11 witness: six candidates of pairwise different scores, one of them at
\* health 0.1; five are returned and the lowest-scoring one is left out
C11_Witness ==
    /\ RouteDone("Competition")
    /\ LET sel == reply.response.selected_agents
           cands == CandidateSet(reply.required)
       IN  /\ Cardinality(cands) = 6
           /\ Len(sel) = 5
           /\ \E c \in Range(sel) : agents[c].health_score = 10
           /\ \A i \in 1..4 : Score(sel[i], reply.required) > Score(sel[i + 1], reply.required)


\* the required capabilities an agent has, counted with multiplicity
Matched(agent, required) ==
    Cardinality({i \in DOMAIN required : required[i] \in agent.capabilities})

\* C12: for every list of required capabilities and every two registered agents
\* A and B, health(A) >= health(B) and capabilities(A) a superset of
\* capabilities(B) imply score(A) >= score(B), the score being
\* 0.6 * health + 0.4 * (required capabilities the agent has / max(number required, 1)).
C12_ScoringMonotone ==
    \A r \in RequiredCaps : \A a, b \in DOMAIN agents :
        /\ calculate_agent_score(agents[a], r) * Max(Len(r), 1)
              = ScoreUnit * (6 * agents[a].health_score * Max(Len(r), 1)
                             + 400 * Matched(agents[a], r))
        /\ (/\ agents[a].health_score >= agents[b].health_score
            /\ agents[b].capabilities \subseteq agents[a].capabilities)
           => calculate_agent_score(agents[a], r) >= calculate_agent_score(agents[b], r)

\* C12 witness: a request has been routed over two agents of which one has
\* strictly more health and strictly more capabilities, and scores strictly more
C12_Witness ==
    /\ reply.op = "route_request" /\ reply.result = "Ok"
    /\ \E a, b \in DOMAIN agents :
          /\ agents[a].health_score > agents[b].health_score
          /\ agents[b].capabilities \subseteq agents[a].capabilities
          /\ agents[b].capabilities # agents[a].capabilities
          /\ agents[b].capabilities # {}
          /\ Score(a, reply.required) > Score(b, reply.required)


\* C13: every stored agent has health_score in [0,1], and when
\* update_agent_health(a, x) has just succeeded the stored score of a is x
\* clamped to [0,1] (x being a number).
C13_HealthClamped ==
    /\ \A a \in DOMAIN agents :
          agents[a].health_score >= 0 /\ agents[a].health_score <= 100
    /\ (/\ reply.op = "update_agent_health" /\ reply.result = "Ok"
        /\ reply.health_score # NaN)
       => agents[reply.agent_id].health_score =
             (IF reply.health_score < 0 THEN 0
              ELSE IF reply.health_score > 100 THEN 100 ELSE reply.health_score)

\* C13 witness: update_agent_health with 1.5 has stored 1.0 while another agent
\* has been brought to 0.0
C13_Witness ==
    /\ reply.op = "update_agent_health" /\ reply.result = "Ok"
    /\ reply.health_score = 150
    /\ agents[reply.agent_id].health_score = 100
    /\ \E a \in DOMAIN agents : agents[a].health_score = 0


\* the request-id rule: non-empty, at most 64 long, characters in [A-Za-z0-9_-]
WellFormedId(id) ==
    /\ MsgIdLen(id) >= 1 /\ MsgIdLen(id) <= 64
    /\ MsgIdChars(id) \subseteq {"ascii_alnum", "underscore", "hyphen"}

\* C14: a route_request or route_best_result call from an anonymous caller
\* fails with "Authentication required", one with an empty, over-long or
\* badly-charactered request_id fails with a msg_id validation error, and in
\* both cases the dedup cache, registry, statistics, metrics and dispatched
\* calls are left as they were.
C14_GuardFailuresNoEffect ==
    [][(/\ reply'.op \in {"route_request", "route_best_result"}
        /\ "caller" \in DOMAIN reply')
       => /\ reply'.caller = Anonymous => reply'.result = "Authentication required"
          /\ (reply'.caller # Anonymous /\ ~WellFormedId(reply'.request_id))
                => reply'.result \in {"Invalid msg_id format",
                                      "msg_id contains invalid characters"}
          /\ (reply'.caller = Anonymous \/ ~WellFormedId(reply'.request_id))
                => UNCHANGED <<dedup_cache, agents, routing_stats, metrics, calls>>]_vars


\* C15: every entry point but health answers an anonymous caller with
\* "Authentication required", returns nothing else to it and changes no state.
C15_AnonymousRejected ==
    [][("caller" \in DOMAIN reply' /\ reply'.caller = Anonymous)
       => /\ reply'.result = "Authentication required"
          /\ DOMAIN reply' \subseteq {"op", "caller", "result", "request_id"}
          /\ UNCHANGED <<now, agents, routing_stats, dedup_cache, metrics, calls, extVars>>]_vars


IsPrefix(p, q) == Len(p) <= Len(q) /\ SubSeq(q, 1, Len(p)) = p

\* C16: in every coordination session the i-th message of the log, counting
\* from 0, has sequence_number i, and a step changes the log of a session only
\* by appending to it.
C16_SessionSequencing ==
    [][/\ \A id \in DOMAIN coordination_sessions'.map :
             \A i \in DOMAIN coordination_sessions'.map[id].messages :
                 coordination_sessions'.map[id].messages[i].sequence_number = i - 1
       /\ \A id \in DOMAIN coordination_sessions.map \cap DOMAIN coordination_sessions'.map :
             IsPrefix(coordination_sessions.map[id].messages,
                      coordination_sessions'.map[id].messages)]_vars


\* C17: every agent's inbound queue holds at most 100 messages, and it holds
\* the most recent messages routed to the agent in arrival order: consecutive
\* tasks, ending with the last one distributed, so that a message routed to a
\* full queue has displaced the oldest one.
C17_QueueBounded ==
    \A a \in DOMAIN agent_message_queues.map :
        LET queue == agent_message_queues.map[a]
        IN  /\ Len(queue) <= 100
            /\ \A i \in 1..Len(queue) - 1 :
                  queue[i + 1].description = queue[i].description + 1
            /\ queue # <<>> => queue[Len(queue)].description = distributed - 1
            /\ (reply.op = "distribute_task" /\ reply.result = "Ok" /\ reply.agent_id = a)
                  => queue # <<>> /\ queue[Len(queue)] = reply.message

\* C17 witness: a task has been routed to a queue that was full; the queue
\* holds 100 messages and no longer the first one it received since it was read
C17_Witness ==
    /\ reply.op = "distribute_task" /\ reply.result = "Ok"
    /\ LET queue == agent_message_queues.map[reply.agent_id]
       IN  /\ Len(queue) = 100
           /\ queue[1].description = distributed - 100
           /\ distributed > 100

\* C18: rollback on failed creation.  Whenever create_agents_from_instructions
\* has returned an error after storing its InstructionRequest (spawning failed,
\* or the economics call that tracks the creation failed), no InstructionRequest
\* with that request id remains in instruction_requests.
C18_RollbackOnFailedCreation ==
    (/\ reply.op = "create_agents_from_instructions"
     /\ reply.result # "Ok"
     /\ reply.request_id # NoRequest)
        => reply.request_id \notin DOMAIN instruction_requests

\* C19: quota denial gates creation.  When the economics canister answers the
\* creation-quota validation of a call with allowed = false, the call returns
\* "Quota exceeded: <reason>" ("Unknown reason" when there is none) in that
\* step and neither instruction_requests, agents, coordination_sessions nor
\* agent_creation_results changes.
C19_QuotaDenialGatesCreation ==
    [][\A c \in DOMAIN creations, o \in ValidationOutcomes :
          (EconValidationReply(c, o) /\ o.kind = "Ok" /\ ~o.validation.allowed)
              => /\ reply'.op = "create_agents_from_instructions"
                 /\ reply'.caller = creations[c].caller
                 /\ reply'.result = "Quota exceeded"
                 /\ reply'.detail = (IF o.validation.reason.is_some
                                     THEN o.validation.reason.value
                                     ELSE "Unknown reason")
                 /\ c \notin DOMAIN creations'
                 /\ UNCHANGED <<instruction_requests, agents, coordination_sessions,
                                agent_creation_results>>]_vars

\* a call is denied, without a reason, in a state that holds the requests,
\* agents, session and results of earlier creations
C19_Witness ==
    /\ reply.op = "create_agents_from_instructions"
    /\ reply.result = "Quota exceeded"
    /\ reply.detail = "Unknown reason"
    /\ ~reply.quota_validation.allowed
    /\ instruction_requests # <<>>
    /\ agents # <<>>
    /\ coordination_sessions.is_some
    /\ agent_creation_results # <<>>

\* C20: quota saturation.  After a validate_quota(AgentCreation) that returned
\* allowed, and after a create_agents_from_instructions that returned Ok, the
\* quota mirror of that principal has
\* usage.agents_created_this_month <= limits.monthly_agent_creations.
C20_QuotaSaturation ==
    LET p == IF reply.op = "validate_quota" THEN reply.principal_id ELSE reply.caller
    IN  (\/ (reply.op = "validate_quota" /\ reply.action = "AgentCreation"
                /\ reply.result = "Ok" /\ reply.allowed)
         \/ (reply.op = "create_agents_from_instructions" /\ reply.result = "Ok"))
            => /\ p \in DOMAIN user_quotas
               /\ user_quotas[p].current_usage.agents_created_this_month
                      <= user_quotas[p].limits.monthly_agent_creations

\* the table row of a tier: max agents, monthly creations, token limit
TierRow(t) ==
    CASE t = "Free" -> <<3, 5, 1024>>
      [] t = "Basic" -> <<10, 15, 2048>>
      [] t = "Pro" -> <<25, 25, 4096>>
      [] t = "Enterprise" -> <<100, 100, 8192>>

\* C21: tier upgrade.  When an authenticated principal's
\* upgrade_subscription_tier(t) returns Ok, t is one of Free, Basic, Pro,
\* Enterprise, the principal's mirror has tier t and the limits of t's table
\* row, and its usage counters are as before; with any other tier name the
\* call returns an error and the mirror is unchanged.
C21_TierUpgrade ==
    [][(reply'.op = "upgrade_subscription_tier" /\ reply'.caller # Anonymous)
       => IF reply'.tier \in {"Free", "Basic", "Pro", "Enterprise"}
          THEN /\ reply'.result = "Ok"
               /\ reply'.caller \in DOMAIN user_quotas'
               /\ user_quotas'[reply'.caller].subscription_tier = reply'.tier
               /\ <<user_quotas'[reply'.caller].limits.max_agents,
                    user_quotas'[reply'.caller].limits.monthly_agent_creations,
                    user_quotas'[reply'.caller].limits.token_limit>> = TierRow(reply'.tier)
               /\ reply'.caller \in DOMAIN user_quotas
                     => user_quotas'[reply'.caller].current_usage
                            = user_quotas[reply'.caller].current_usage
          ELSE /\ reply'.result # "Ok"
               /\ UNCHANGED user_quotas]_vars

\* an agent that passes the gate: health at least 0.1 and at least one of the
\* required capabilities
Gated(id, required) ==
    /\ id \in DOMAIN agents
    /\ agents[id].health_score >= 10
    /\ \E i \in DOMAIN required : required[i] \in agents[id].capabilities

\* C22: capability and health gate dispatch.  Every agent id that a successful
\* route_request puts in selected_agents, and every agent that
\* route_best_result dispatches to, has at that step health_score >= 0.1 and
\* one of the required capabilities; the selected_agents that
\* route_best_result returns are among the agents it dispatched to.
C22_GatedDispatch ==
    [][/\ (reply'.op = "route_request" /\ reply'.result = "Ok")
           => \A i \in DOMAIN reply'.response.selected_agents :
                 Gated(reply'.response.selected_agents[i], reply'.required)
       /\ (reply'.op = "route_best_result" /\ reply'.result = "pending")
           => \A i \in DOMAIN reply'.dispatched :
                 Gated(reply'.dispatched[i], reply'.required)
       /\ (reply'.op = "route_best_result" /\ reply'.result = "Ok")
           => \E c \in DOMAIN calls :
                 /\ calls[c].active /\ ~calls'[c].active
                 /\ calls[c].request_id = reply'.request_id
                 /\ Range(reply'.response.selected_agents)
                        \subseteq {calls[c].results[j].agent_id : j \in DOMAIN calls[c].results}
      ]_vars

\* a route_request has selected agents while a capable agent of health below
\* 0.1 and a healthy agent without the capability were left out
C22_Witness ==
    /\ reply.op = "route_request" /\ reply.result = "Ok"
    /\ reply.response.selected_agents # <<>>
    /\ \E a, b \in DOMAIN agents :
          /\ a \notin Range(reply.response.selected_agents)
          /\ b \notin Range(reply.response.selected_agents)
          /\ agents[a].health_score < 10
          /\ \E i \in DOMAIN reply.required : reply.required[i] \in agents[a].capabilities
          /\ agents[b].health_score >= 10
          /\ \A i \in DOMAIN reply.required : reply.required[i] \notin agents[b].capabilities

\* the agents that took part in the dispatch that the step completes: the
\* selected agents of a route_request, the agents a fan-out had dispatched to
Participants23 ==
    IF reply'.op = "route_request"
    THEN Range(reply'.response.selected_agents)
    ELSE UNION {{calls[c].results[j].agent_id : j \in DOMAIN calls[c].results} :
                   c \in {d \in DOMAIN calls : /\ calls[d].active /\ ~calls'[d].active
                                               /\ calls[d].request_id = reply'.request_id}}

\* C23: statistics update after dispatch.  In the step that completes a
\* dispatch (a successful route_request or route_best_result) the RoutingStats
\* of every participating agent has total_requests increased by exactly 1, and
\* the RoutingStats of every other agent is unchanged.  (The running averages
\* the claim speaks of are over that new count.)
C23_StatsAfterDispatch ==
    [][(reply'.op \in {"route_request", "route_best_result"} /\ reply'.result = "Ok")
       => /\ DOMAIN routing_stats' = DOMAIN routing_stats
          /\ \A a \in DOMAIN routing_stats :
                IF a \in Participants23
                THEN routing_stats'[a].total_requests = routing_stats[a].total_requests + 1
                ELSE routing_stats'[a] = routing_stats[a]]_vars

\* C24: fan-out dispatch bound.  route_best_result with parameter k dispatches
\* to at most min(k, 3) agents, pairwise distinct; every inference request it
\* sends carries the seed derived from the request_id and msg_id equal to the
\* request_id; and the selection_criteria of the response reports
\* fanout_top_k = min(k, 3).
C24_FanoutBound ==
    [][/\ (reply'.op = "route_best_result" /\ reply'.result = "pending")
           => /\ Len(reply'.dispatched) <= (IF reply'.k < 3 THEN reply'.k ELSE 3)
              /\ Cardinality(Range(reply'.dispatched)) = Len(reply'.dispatched)
              /\ Len(reply'.requests) = Len(reply'.dispatched)
              /\ \A i \in DOMAIN reply'.requests :
                    /\ reply'.requests[i].seed = derive_seed(reply'.request_id)
                    /\ reply'.requests[i].msg_id = reply'.request_id
              /\ \E c \in DOMAIN calls :
                    /\ ~calls[c].active /\ calls'[c].active
                    /\ calls'[c].cap_k = (IF reply'.k < 3 THEN reply'.k ELSE 3)
       /\ (reply'.op = "route_best_result" /\ reply'.result = "Ok")
           => \E c \in DOMAIN calls :
                 /\ calls[c].active /\ ~calls'[c].active
                 /\ reply'.response.selection_criteria.fanout_top_k = calls[c].cap_k
      ]_vars

\* a fan-out with k = 4 over four capable agents has dispatched to exactly three
C24_Witness ==
    /\ reply.op = "route_best_result" /\ reply.result = "pending"
    /\ reply.k = 4
    /\ Len(reply.dispatched) = 3
    /\ Cardinality({a \in DOMAIN agents : "code" \in agents[a].capabilities}) = 4

\* C25: session timeout on send.  A successful send appends the message to the
\* session's log; it leaves the session in status Timeout when the session's
\* age (now minus created_at) exceeds one hour and leaves the status as it was
\* otherwise; and in no step does the last_activity of a stored session
\* decrease.
C25_SessionTimeoutOnSend ==
    [][/\ (reply'.op = "send_coordination_message" /\ reply'.result = "Ok")
           => LET old == coordination_sessions.map[reply'.session_id]
                  new == coordination_sessions'.map[reply'.session_id]
              IN  /\ new.status = (IF now - old.created_at > 3600 * 1000
                                   THEN "Timeout" ELSE old.status)
                  /\ Len(new.messages) = Len(old.messages) + 1
                  /\ SubSeq(new.messages, 1, Len(old.messages)) = old.messages
                  /\ new.last_activity >= old.last_activity
       /\ \A id \in DOMAIN coordination_sessions.map \cap DOMAIN coordination_sessions'.map :
             coordination_sessions'.map[id].last_activity
                 >= coordination_sessions.map[id].last_activity
      ]_vars

\* a send has just put a session older than one hour into Timeout while a
\* younger session that was also sent to is still Active
C25_Witness ==
    /\ reply.op = "send_coordination_message" /\ reply.result = "Ok"
    /\ coordination_sessions.map[reply.session_id].status = "Timeout"
    /\ now - coordination_sessions.map[reply.session_id].created_at > 3600 * 1000
    /\ \E id \in DOMAIN coordination_sessions.map :
          /\ coordination_sessions.map[id].status = "Active"
          /\ coordination_sessions.map[id].messages # <<>>
          /\ coordination_sessions.map[id].created_at > 0

\* C26: session reclamation.  A cleanup_expired_sessions step removes every
\* session whose age since creation (now minus created_at) exceeds one hour,
\* returns the number of sessions it removed, and leaves every other session
\* as it was.
C26_SessionReclamation ==
    [][(reply'.op = "cleanup_expired_sessions" /\ coordination_sessions.is_some)
          => LET old == coordination_sessions.map
                 new == coordination_sessions'.map
                 expired == {id \in DOMAIN old : now - old[id].created_at > 3600 * 1000}
             IN  /\ DOMAIN new = DOMAIN old \ expired
                 /\ reply'.cleaned_count = Cardinality(expired)
                 /\ \A id \in DOMAIN new : new[id] = old[id]
      ]_vars

\* C27: analyzer agent count.  For every instruction text, agent_count is
\* max(1, number of matched patterns), raised to at least 3 when the text
\* contains "team" or "multiple", raised to at least 4 when it contains
\* "complex" or "comprehensive", then capped at 10; so it lies in 1..10.
MatchedPatterns(instructions) ==
    {i \in DOMAIN CapabilityPatterns : instructions \cap CapabilityPatterns[i].keywords # {}}

CountByPatterns(instructions) ==
    LET base == Max(1, Cardinality(MatchedPatterns(instructions)))
        team == IF instructions \cap {"team", "multiple"} # {} THEN Max(base, 3) ELSE base
        complex == IF instructions \cap {"complex", "comprehensive"} # {}
                   THEN Max(team, 4) ELSE team
    IN  Min(complex, 10)

C27_AgentCount ==
    reply.op = "parse_instructions"
        => /\ reply.parsed.agent_count = CountByPatterns(reply.instructions)
           /\ reply.parsed.agent_count \in 1..10

\* C28: analyzer spec list.  For every parsed requirement set the generated
\* list has exactly agent_count entries; its first
\* min(agent_count, number of specializations) entries are the specializations
\* in their order, which for a parsed text is the order of the pattern table;
\* every remaining entry is a Generalist spec with capabilities
\* [general_assistance] and models [llama].
C28_SpecList ==
    reply.op \in {"parse_instructions", "generate_agent_specs"}
        => LET parsed == reply.parsed
               specs == reply.specs
               matched == Min(parsed.agent_count, Len(parsed.specializations))
           IN  /\ Len(specs) = parsed.agent_count
               /\ \A i \in 1..matched :
                     /\ specs[i].specialization = parsed.specializations[i]
                     /\ specs[i].agent_type = parsed.specializations[i]
               /\ \A i \in (matched + 1)..Len(specs) :
                     /\ specs[i].required_capabilities = {"general_assistance"}
                     /\ specs[i].model_requirements = <<"llama">>
                     /\ specs[i].specialization = "General Assistant"
               /\ reply.op = "parse_instructions"
                     => \A i, j \in DOMAIN parsed.specializations :
                           i < j => \E a, b \in DOMAIN CapabilityPatterns :
                                       /\ a < b
                                       /\ CapabilityPatterns[a].specialization = parsed.specializations[i]
                                       /\ CapabilityPatterns[b].specialization = parsed.specializations[j]

\* a list of four specs made from two specializations: the two specialists
\* first, two generalists after them
C28_Witness ==
    /\ reply.op = "generate_agent_specs"
    /\ reply.parsed.agent_count = 4
    /\ reply.parsed.specializations = <<"Test Engineer", "Data Analyst">>
    /\ Len(reply.specs) = 4
    /\ reply.specs[2].specialization = "Data Analyst"
    /\ reply.specs[3].agent_type = "Generalist Agent 3"

\* C29: spawning status derivation.  For a non-empty list of spawned agents
\* the status is Completed if all are Ready, Failed if all are Error,
\* PartialSuccess if at least one but not all are Ready, and InProgress
\* otherwise; an empty list gives Failed; and the stored AgentCreationResult
\* carries Completed for PartialSuccess and the derived status otherwise.
C29_SpawningStatus ==
    reply.op = "store_spawning_result"
        => LET a == reply.spawned_agents
               Ready == {i \in DOMAIN a : a[i].status = "Ready"}
               Error == {i \in DOMAIN a : a[i].status = "Error"}
               stored == agent_creation_results[reply.request_id]
           IN  /\ a = <<>> => reply.status = "Failed"
               /\ (a # <<>> /\ Ready = DOMAIN a) => reply.status = "Completed"
               /\ (a # <<>> /\ Error = DOMAIN a) => reply.status = "Failed"
               /\ (Ready # {} /\ Ready # DOMAIN a) => reply.status = "PartialSuccess"
               /\ (a # <<>> /\ Ready = {} /\ Error # DOMAIN a) => reply.status = "InProgress"
               /\ stored.status = (IF reply.status = "PartialSuccess"
                                   THEN "Completed" ELSE reply.status)
               /\ stored.created_agents = [i \in DOMAIN a |-> a[i].agent_id]

\* a Ready and an Error agent: PartialSuccess, stored as Completed
C29_Witness ==
    /\ reply.op = "store_spawning_result"
    /\ Len(reply.spawned_agents) = 2
    /\ reply.spawned_agents[1].status = "Ready"
    /\ reply.spawned_agents[2].status = "Error"
    /\ reply.status = "PartialSuccess"
    /\ agent_creation_results[reply.request_id].status = "Completed"

\* C30: spawned team session.  A spawn creates a coordination session if and
\* only if at least two agents were spawned; the session's participants are
\* the spawned agent ids in spawn order, its coordinator is the first
\* participant, it is Active with an empty message log, and every participant
\* has a capability profile.  And in every stored session the coordinator is
\* the first participant.
Spawning(c) ==
    /\ c \in DOMAIN creations /\ c \in DOMAIN creations'
    /\ creations[c].phase = "sync" /\ creations'[c].phase = "track"

SpawnedTeam(c) ==
    LET ids == agent_creation_results'[creations'[c].request_id].created_agents
        network == network_id_at(now)
    IN  IF Len(ids) >= 2
        THEN /\ coordination_sessions'.is_some
             /\ network \in DOMAIN coordination_sessions'.map
             /\ coordination_sessions'.map[network].participants = ids
             /\ coordination_sessions'.map[network].coordinator_agent = ids[1]
             /\ coordination_sessions'.map[network].status = "Active"
             /\ coordination_sessions'.map[network].messages = <<>>
             /\ agent_capability_profiles'.is_some
             /\ \A i \in DOMAIN ids : ids[i] \in DOMAIN agent_capability_profiles'.map
        ELSE coordination_sessions' = coordination_sessions

CoordinatorFirst(sessions) ==
    \A id \in DOMAIN sessions.map :
        /\ sessions.map[id].participants # <<>>
        /\ sessions.map[id].coordinator_agent = sessions.map[id].participants[1]

C30_SpawnedTeamSession ==
    [][/\ \A c \in DOMAIN creations : Spawning(c) => SpawnedTeam(c)
       /\ CoordinatorFirst(coordination_sessions')
      ]_vars

\* C31: token quota after validate-then-apply.  After a validate_quota for
\* TokenUsage that returns allowed, the stored tokens_used_this_month is at
\* most limits.token_limit; a request for more than token_limit minus
\* tokens_used is denied with "Insufficient token quota" and the mirror is
\* left unchanged.
C31_TokenQuota ==
    [][(reply'.op = "validate_quota" /\ reply'.action = "TokenUsage" /\ reply'.result = "Ok")
          => LET p == reply'.principal_id
                 before == reset_monthly_usage_if_needed(user_quotas[p], now)
                 after == user_quotas'[p]
             IN  /\ reply'.allowed
                       => after.current_usage.tokens_used_this_month
                              <= after.limits.token_limit
                 /\ reply'.amount.value
                        > before.limits.token_limit
                              - before.current_usage.tokens_used_this_month
                       => /\ ~reply'.allowed
                          /\ reply'.reason = Reason("Insufficient token quota")
                          /\ user_quotas' = user_quotas
      ]_vars

\* C32: quota sync projection.  When a sync of principal p succeeds, the
\* mirror entry of p carries the tier name, the limits and the usage the
\* economics collaborator returned, whatever the entry held before; when the
\* collaborator reports no subscription, a Free subscription is requested and
\* the lookup is made again; when a collaborator call fails, or the second
\* lookup still finds nothing, the sync ends in an error and the mirror is
\* unchanged.
SyncProjects(c, outcome) ==
    LET p == creations[c].caller
        sub == outcome.subscription.value
    IN  IF outcome.kind # "Ok"
        THEN /\ user_quotas' = user_quotas
             /\ c \notin DOMAIN creations'
             /\ reply'.result = econ_error(outcome.kind)
        ELSE IF outcome.subscription.is_some
        THEN /\ p \in DOMAIN user_quotas'
             /\ user_quotas'[p].subscription_tier = sub.tier.name
             /\ user_quotas'[p].limits.max_agents = sub.tier.max_agents
             /\ user_quotas'[p].limits.monthly_agent_creations
                    = sub.tier.monthly_agent_creations
             /\ user_quotas'[p].limits.token_limit = sub.tier.token_limit
             /\ user_quotas'[p].limits.inference_rate = sub.tier.inference_rate
             /\ user_quotas'[p].current_usage = sub.current_usage
             /\ \A q \in DOMAIN user_quotas \ {p} :
                   q \in DOMAIN user_quotas' /\ user_quotas'[q] = user_quotas[q]
        ELSE IF creations[c].awaiting = "get_user_subscription"
        THEN /\ user_quotas' = user_quotas
             /\ c \in DOMAIN creations'
             /\ creations'[c].awaiting = "get_or_create_free_subscription"
        ELSE /\ user_quotas' = user_quotas
             /\ c \notin DOMAIN creations'
             /\ reply'.result = "Failed to create user subscription"

FreeRequested(c, kind) ==
    /\ user_quotas' = user_quotas
    /\ IF kind = "Ok"
       THEN c \in DOMAIN creations' /\ creations'[c].awaiting = "get_user_subscription_again"
       ELSE c \notin DOMAIN creations' /\ reply'.result = econ_error(kind)

C32_SyncProjection ==
    [][/\ \A c \in DOMAIN creations, o \in SubscriptionOutcomes :
             EconSubscriptionReply(c, o) => SyncProjects(c, o)
       /\ \A c \in DOMAIN creations, k \in EconKinds :
             EconFreeSubscriptionReply(c, k) => FreeRequested(c, k)
      ]_vars

\* a creation has returned Ok after its second sync, made after the clock
\* had advanced, and the mirror holds the usage and the time of that sync
C32_Witness ==
    /\ reply.op = "create_agents_from_instructions" /\ reply.result = "Ok"
    /\ reply.caller \in DOMAIN user_quotas
    /\ user_quotas[reply.caller].current_usage.agents_created_this_month = 4
    /\ user_quotas[reply.caller].last_updated = now
    /\ now > 0

\* C33: failed routing admits a retry.  When route_request or
\* route_best_result fails because no capable agent exists, the call records
\* no dedup entry (the cache gains nothing and changes no entry) and leaves
\* the routing metrics unchanged, so the request id is no more a duplicate
\* after the call than before it; after a failed route_request it is not a
\* duplicate at all.
NoAgentsErrors ==
    {"No agents available with required capabilities",
     "No agents available for competition", "No agents available"}

C33_FailedRoutingAdmitsRetry ==
    [][(reply'.op \in {"route_request", "route_best_result"}
           /\ reply'.result \in NoAgentsErrors)
          => /\ DOMAIN dedup_cache' \subseteq DOMAIN dedup_cache
             /\ \A id \in DOMAIN dedup_cache' : dedup_cache'[id] = dedup_cache[id]
             /\ metrics' = metrics
             /\ is_duplicate(dedup_cache', reply'.request_id, now')
                   => is_duplicate(dedup_cache, reply'.request_id, now)
             /\ reply'.op = "route_request"
                   => ~is_duplicate(dedup_cache', reply'.request_id, now')
      ]_vars

\* a route_request has failed for want of a capable agent, after another
\* request had been routed and recorded
C33_Witness ==
    /\ reply.op = "route_request"
    /\ reply.result = "No agents available with required capabilities"
    /\ reply.request_id \notin DOMAIN dedup_cache
    /\ dedup_cache # <<>>
    /\ metrics.total_routes > 0

\* C34: dedup is shared across the routing entry points.  After
\* route_best_result has returned a response for request id r at time t, a
\* route_request with the same r that reaches the duplicate check (its caller
\* is authenticated) before t + 24 h is rejected with "Duplicate request ID".
C34_SharedDedup ==
    [][(/\ reply'.op = "route_request"
        /\ require_caller_authenticated(reply'.caller)
        /\ lastOk[reply'.request_id].route_best_result # NoTime
        /\ now < lastOk[reply'.request_id].route_best_result + TTL_DURATION)
          => reply'.result = "Duplicate request ID"
      ]_vars

\* a route_request is rejected as a duplicate, at a later clock value, of an
\* id that only route_best_result has ever returned a response for
C34_Witness ==
    /\ reply.op = "route_request"
    /\ reply.result = "Duplicate request ID"
    /\ lastOk[reply.request_id].route_request = NoTime
    /\ lastOk[reply.request_id].route_best_result # NoTime
    /\ now > lastOk[reply.request_id].route_best_result

\* C35: re-admission after expiry.  A route_request that reaches the duplicate
\* check at or after 24 h from the time its request id was recorded is not
\* rejected as a duplicate, and the expired entry is swept; when it is routed,
\* the new record takes the place of the old with expiry equal to the new
\* processing time plus 24 h.  A cleanup_expired removes exactly the expired
\* entries, keeps the others as they are, and returns how many it removed.
C35_ReadmissionAfterExpiry ==
    [][/\ (/\ reply'.op = "route_request"
           /\ require_caller_authenticated(reply'.caller)
           /\ reply'.request_id \in DOMAIN dedup_cache
           /\ now >= dedup_cache[reply'.request_id].processed_at + TTL_DURATION)
             => /\ reply'.result # "Duplicate request ID"
                /\ reply'.result # "Ok" => reply'.request_id \notin DOMAIN dedup_cache'
                /\ reply'.result = "Ok"
                      => /\ dedup_cache'[reply'.request_id].processed_at = now
                         /\ dedup_cache'[reply'.request_id].ttl_expires_at
                                = now + TTL_DURATION
       /\ reply'.op = "cleanup_expired"
             => LET expired == {id \in DOMAIN dedup_cache :
                                   now >= dedup_cache[id].processed_at + TTL_DURATION}
                IN  /\ DOMAIN dedup_cache' = DOMAIN dedup_cache \ expired
                    /\ \A id \in DOMAIN dedup_cache' : dedup_cache'[id] = dedup_cache[id]
                    /\ reply'.removed = Cardinality(expired)
      ]_vars

\* a request id that route_best_result had recorded 24 h or more ago has been
\* routed again by route_request and carries the new expiry
C35_Witness ==
    /\ reply.op = "route_request" /\ reply.result = "Ok"
    /\ lastOk[reply.request_id].route_best_result # NoTime
    /\ now >= lastOk[reply.request_id].route_best_result + TTL_DURATION
    /\ dedup_cache[reply.request_id].ttl_expires_at = now + TTL_DURATION

\* C36: registry and statistics share keys.  In every reachable state every
\* agent of the registry, whether register_agent or a spawn from instructions
\* put it there, has a RoutingStats row under the same agent_id.
C36_RegistryStatsShareKeys ==
    \A id \in DOMAIN agents :
        id \in DOMAIN routing_stats /\ routing_stats[id].agent_id = id

\* C37: only the owner changes an agent's health.  A call of
\* update_agent_health or update_agent_status leaves the health_score of
\* every agent owned by a principal other than the caller as it was.
C37_OnlyOwnerChangesHealth ==
    [][reply'.op \in {"update_agent_health", "update_agent_status"}
          => \A id \in DOMAIN agents :
                agents[id].agent_principal # reply'.caller
                    => /\ id \in DOMAIN agents'
                       /\ agents'[id].health_score = agents[id].health_score
      ]_vars

\* C38: the creation result is frozen at InProgress.  Every
\* AgentCreationResult stored by spawning from instructions has status
\* InProgress, and no step, update_agent_status on its agents included,
\* removes a stored result or changes its status.
C38_ResultFrozenInProgress ==
    [][/\ \A r \in DOMAIN agent_creation_results' :
             agent_creation_results'[r].status = "InProgress"
       /\ \A r \in DOMAIN agent_creation_results :
             /\ r \in DOMAIN agent_creation_results'
             /\ agent_creation_results'[r].status = agent_creation_results[r].status
      ]_vars

\* update_agent_status has reported a spawned agent as in error, and the
\* stored result that lists the agent still says InProgress
C38_Witness ==
    /\ reply.op = "update_agent_status" /\ reply.result = "Ok"
    /\ reply.status = "error"
    /\ \E r \in DOMAIN agent_creation_results :
          /\ agent_creation_results[r].status = "InProgress"
          /\ \E i \in DOMAIN agent_creation_results[r].created_agents :
                agent_creation_results[r].created_agents[i] = reply.agent_id
    /\ agents[reply.agent_id].health_score = 0

\* C39: agent cap per principal.  After any sequence of
\* create_agents_from_instructions calls, the number of registered agents
\* owned by a principal is at most the max_agents limit of that principal's
\* quota mirror; and a creation that asks for more agents than the remaining
\* allowance (max_agents minus agents created this month) registers none.
OwnedAgents(registry, p) == {a \in DOMAIN registry : registry[a].agent_principal = p}

C39_AgentCap ==
    [][/\ \A p \in DOMAIN user_quotas' :
             Cardinality(OwnedAgents(agents', p)) <= user_quotas'[p].limits.max_agents
       /\ \A c \in DOMAIN creations :
             LET p == creations[c].caller
                 requested == parse_instructions(creations[c].instructions).agent_count
                 remaining == Max(user_quotas'[p].limits.max_agents
                                  - user_quotas'[p].current_usage.agents_created_this_month, 0)
             IN  (Spawning(c) /\ requested > remaining) => agents' = agents
      ]_vars

\* C40: fresh identifiers.  Every successful register_agent adds its
\* descriptor under an agent_id that was not in the registry, and every
\* create_agents_from_instructions stores its InstructionRequest and its
\* creation result under a request_id that was not in use, also when two such
\* calls are processed at the same clock value.
C40_FreshIdentifiers ==
    [][/\ (reply'.op = "register_agent" /\ reply'.result = "Ok")
             => reply'.agent_id \notin DOMAIN agents
       /\ \A c \in DOMAIN creations :
             Spawning(c)
                 => /\ creations'[c].request_id \notin DOMAIN instruction_requests
                    /\ creations'[c].request_id \notin DOMAIN agent_creation_results
      ]_vars

=============================================================================
